---- MODULE Spec2Model ----
(***************************************************************************)
(* file-fabric: the YAML-driven batch generator (src/src/generate.ts) and  *)
(* the generator checks it relies on (doc_generators.ts).                  *)
(*                                                                         *)
(* JavaScript values are tagged records.  A string is a sequence of        *)
(* tokens (its concatenation is the text), an object is the ordered        *)
(* sequence of its <<key, value>> entries (Object.keys order), a number is *)
(* finite (counted in halves, so 1.5 is representable), NaN or Infinity.   *)
(***************************************************************************)
EXTENDS Integers, Sequences, FiniteSets, TLC

(* ---------------------------------------------------------------------- *)
(* Bounds                                                                  *)
(* ---------------------------------------------------------------------- *)
MaxItems == 2      \* longest list fragment in a single-section plan
MaxKeys == 2       \* most top-level keys in a multi-section plan
MaxProcs == 2      \* processes creating directories at the same time
MaxRequests == 2   \* requests the HTTP service has in flight together

(* ---------------------------------------------------------------------- *)
(* JavaScript values                                                       *)
(* ---------------------------------------------------------------------- *)
Undef == [t |-> "undefined"]
Null == [t |-> "null"]
Bool(b) == [t |-> "boolean", b |-> b]
NumH(h) == [t |-> "number", k |-> "finite", h |-> h]
Num(n) == NumH(2 * n)
NaN == [t |-> "number", k |-> "nan", h |-> 0]
Infinity == [t |-> "number", k |-> "inf", h |-> 0]
Str(s) == [t |-> "string", s |-> s]
Arr(a) == [t |-> "array", a |-> a]
Obj(e) == [t |-> "object", e |-> e]

S(tok) == Str(<<tok>>)

TypeOf(v) ==
  IF v.t \in {"null", "array", "object"} THEN "object" ELSE v.t

IsArray(v) == v.t = "array"

Truthy(v) ==
  CASE v.t = "undefined" -> FALSE
    [] v.t = "null" -> FALSE
    [] v.t = "boolean" -> v.b
    [] v.t = "number" -> v.k = "inf" \/ (v.k = "finite" /\ v.h # 0)
    [] v.t = "string" -> v.s # <<>>
    [] OTHER -> TRUE

HasKey(o, k) == \E j \in 1..Len(o.e) : o.e[j][1] = k

\* v.k for a value v that is neither null nor undefined
Get(v, k) ==
  IF v.t = "object" /\ HasKey(v, k)
  THEN (CHOOSE en \in {v.e[j] : j \in 1..Len(v.e)} : en[1] = k)[2]
  ELSE Undef

Includes(seq, x) == \E j \in 1..Len(seq) : seq[j] = x

Every(seq, P(_)) == \A j \in 1..Len(seq) : P(seq[j])

(* ---------------------------------------------------------------------- *)
(* Strings and paths                                                       *)
(* ---------------------------------------------------------------------- *)
IsSpace(tok) == tok \in {" ", "\t"}

RECURSIVE TrimStart(_)
TrimStart(s) ==
  IF s # <<>> /\ IsSpace(Head(s)) THEN TrimStart(Tail(s)) ELSE s

RECURSIVE TrimEnd(_)
TrimEnd(s) ==
  IF s # <<>> /\ IsSpace(s[Len(s)]) THEN TrimEnd(SubSeq(s, 1, Len(s) - 1)) ELSE s

Trim(s) == TrimEnd(TrimStart(s))

\* index of the last "/" token, 0 when there is none
RECURSIVE LastSlash(_, _)
LastSlash(s, j) ==
  IF j = 0 THEN 0 ELSE IF s[j] = "/" THEN j ELSE LastSlash(s, j - 1)

\* path.dirname
Dirname(p) ==
  LET j == LastSlash(p, Len(p))
  IN IF j = 0 THEN <<".">> ELSE IF j = 1 THEN <<"/">> ELSE SubSeq(p, 1, j - 1)

\* the directories mkdirSync(dir, {recursive: true}) makes sure exist
RECURSIVE DirChain(_)
DirChain(d) ==
  IF d = <<".">> \/ d = <<"/">> THEN {} ELSE {d} \cup DirChain(Dirname(d))

\* ensureDirFor(filePath), on the set of directories that exist
ensureDirFor(existing, filePath) == existing \cup DirChain(Dirname(filePath))

(* ---------------------------------------------------------------------- *)
(* Validation results and error messages                                   *)
(* ---------------------------------------------------------------------- *)
Ok(val) == [ok |-> TRUE, v |-> val]
Fail(m) == [ok |-> FALSE, msg |-> m]

\* `${kind}[${idx}].${field}`
Where(kind, idx, field) == <<kind, "[", ToString(idx), "]", ".", field>>

\* `${kind}[${idx}].${subkey}["${name}"]`
WhereIn(kind, idx, subkey, name) ==
  <<kind, "[", ToString(idx), "]", ".", subkey, "[\"", name, "\"]">>

\* the TypeError of reading a property of null or undefined
TypeErrorMsg(v, prop) ==
  <<"Cannot read properties of ", v.t, " (reading '", prop, "')">>

expectString(v, where) ==
  IF v.t # "string" \/ Trim(v.s) = <<>>
  THEN Fail(where \o <<" must be a non-empty string">>)
  ELSE Ok(v)

IsFinite(v) == v.t = "number" /\ v.k = "finite"

\* variant: Math.floor(v) !== v is not tested
expectPositiveIntNoFloor(v, where) ==
  IF ~IsFinite(v) \/ v.h <= 0
  THEN Fail(where \o <<" must be a positive integer">>)
  ELSE Ok(v)

\* !Number.isFinite(v) || v <= 0 || Math.floor(v) !== v
expectPositiveInt(v, where) ==
  IF ~IsFinite(v) \/ v.h <= 0 \/ v.h % 2 # 0
  THEN Fail(where \o <<" must be a positive integer">>)
  ELSE Ok(v)

\* server.ts: badRequest(message), an Error with status 400
badRequest(message) == [ok |-> FALSE, msg |-> message, status |-> 400]

\* server.ts: the copy of expectPositiveInt used by the routes
srvExpectPositiveInt(v, where) ==
  IF ~IsFinite(v) \/ v.h <= 0 \/ v.h % 2 # 0
  THEN badRequest(where \o <<" must be a positive integer">>)
  ELSE Ok(v)

expectPositiveNumber(v, where) ==
  IF ~IsFinite(v) \/ v.h <= 0
  THEN Fail(where \o <<" must be a positive number">>)
  ELSE Ok(v)

expectBoolean(v, where) ==
  IF v.t # "boolean" THEN Fail(where \o <<" must be a boolean">>) ELSE Ok(v)

IsStringArray(v) == IsArray(v) /\ Every(v.a, LAMBDA x : x.t = "string")

(* ---------------------------------------------------------------------- *)
(* Per-item validation of the batch handlers.  Each returns either         *)
(* [ok |-> FALSE, msg] (the Error thrown) or [ok |-> TRUE, path, call,     *)
(* notes]: the output path, the generator call and the notices printed     *)
(* before the directory is created.                                        *)
(* ---------------------------------------------------------------------- *)
RECURSIVE FirstFail(_)
FirstFail(checks) ==
  IF checks = <<>> THEN [ok |-> TRUE]
  ELSE IF ~Head(checks).ok THEN Head(checks) ELSE FirstFail(Tail(checks))

Pass == [ok |-> TRUE]

Must(cond, m) == IF cond THEN Pass ELSE Fail(m)

Optional(v, check) == IF v = Undef THEN Pass ELSE check

Accept(p, fn, args, notes) ==
  [ok |-> TRUE, path |-> p, call |-> [fn |-> fn, args |-> args], notes |-> notes]

\* the Error thrown out of a try block; dirEnsured: ensureDirFor ran before the throw
Reject(m, ensured) == [ok |-> FALSE, msg |-> m, dirEnsured |-> ensured]

\* variant: ensureDirFor placed right after the path check
OutcomeDirFirst(checks, p, fn, args, notes) ==
  LET f == FirstFail(checks)
  IN IF f.ok THEN Accept(p, fn, args, notes) ELSE Reject(f.msg, Head(checks).ok)

\* a try block: the field checks in order, then ensureDirFor, then the generator call
Outcome(checks, p, fn, args, notes) ==
  LET f == FirstFail(checks)
  IN IF f.ok THEN Accept(p, fn, args, notes) ELSE Reject(f.msg, FALSE)

TextsCheck(texts, where) ==
  Optional(texts, Must(IsStringArray(texts), where \o <<" must be an array of strings">>))

ValidateJSON(item, idx) ==
  LET pretty == Get(item, "pretty")
      data == Get(item, "data")
  IN Outcome(
       << expectString(Get(item, "path"), Where("json", idx, "path")),
          Optional(pretty, expectBoolean(pretty, Where("json", idx, "pretty"))),
          Must((Truthy(data) /\ TypeOf(data) = "object") \/ data = Undef,
               Where("json", idx, "data") \o <<" must be an object">>) >>,
       Get(item, "path").s, "generateJSON",
       << Obj(<< <<"path", Get(item, "path")>>,
                 <<"pretty", IF pretty = Undef THEN Bool(TRUE) ELSE pretty>>,
                 <<"data", data>> >>) >>,
       <<>>)

ValidatePDF(item, idx) ==
  LET title == Get(item, "title")
      fontSize == Get(item, "fontSize")
      texts == Get(item, "texts")
  IN Outcome(
       << expectString(Get(item, "path"), Where("pdf", idx, "path")),
          Optional(title, expectString(title, Where("pdf", idx, "title"))),
          Optional(fontSize, expectPositiveInt(fontSize, Where("pdf", idx, "fontSize"))),
          expectPositiveInt(Get(item, "lines"), Where("pdf", idx, "lines")),
          TextsCheck(texts, Where("pdf", idx, "texts")) >>,
       Get(item, "path").s, "generatePDF",
       << Obj(<< <<"path", Get(item, "path")>>, <<"title", title>>,
                 <<"fontSize", fontSize>>, <<"lines", Get(item, "lines")>>,
                 <<"texts", texts>> >>) >>,
       <<>>)

\* handleTXT and handleDOCX have the same body up to the label and generator
ValidateLines(kind, fn, item, idx) ==
  LET texts == Get(item, "texts")
  IN Outcome(
       << expectString(Get(item, "path"), Where(kind, idx, "path")),
          expectPositiveInt(Get(item, "lines"), Where(kind, idx, "lines")),
          TextsCheck(texts, Where(kind, idx, "texts")) >>,
       Get(item, "path").s, fn,
       << Obj(<< <<"path", Get(item, "path")>>, <<"lines", Get(item, "lines")>>,
                 <<"texts", texts>> >>) >>,
       <<>>)

ValidateTXT(item, idx) == ValidateLines("txt", "generateTXT", item, idx)

ValidateDOCX(item, idx) == ValidateLines("docx", "generateDOCX", item, idx)

\* Object.entries: own entries of an object, index entries of an array
Entries(v) ==
  IF v.t = "object" THEN v.e
  ELSE IF v.t = "array" THEN [j \in 1..Len(v.a) |-> <<ToString(j - 1), v.a[j]>>]
  ELSE <<>>

IsObjectValue(v) == Truthy(v) /\ TypeOf(v) = "object"

SlideChecks(idx, en) ==
  LET w == WhereIn("pptx", idx, "slides", en[1])
      texts == Get(en[2], "texts")
  IN << Must(IsObjectValue(en[2]), w \o <<" must be an object">>),
        expectPositiveInt(Get(en[2], "lines"), w \o <<".", "lines">>),
        Optional(texts, Must(IsStringArray(texts),
                             w \o <<".", "texts", " must be an array of strings">>)) >>

SheetChecks(idx, en) ==
  LET w == WhereIn("xlsx", idx, "sheets", en[1])
      texts == Get(en[2], "texts")
  IN << Must(IsObjectValue(en[2]), w \o <<" must be an object">>),
        expectPositiveInt(Get(en[2], "rows"), w \o <<".", "rows">>),
        Optional(texts, Must(IsArray(texts) /\ Every(texts.a, IsArray),
                             w \o <<".", "texts", " must be string[][]">>)) >>

\* the checks of the loop over Object.entries(slides) / Object.entries(sheets)
RECURSIVE EntryChecks(_, _, _)
EntryChecks(ens, idx, kind) ==
  IF ens = <<>> THEN <<>>
  ELSE (IF kind = "pptx" THEN SlideChecks(idx, Head(ens)) ELSE SheetChecks(idx, Head(ens)))
       \o EntryChecks(Tail(ens), idx, kind)

ValidatePPTX(item, idx) ==
  LET slides == Get(item, "slides")
  IN Outcome(
       << expectString(Get(item, "path"), Where("pptx", idx, "path")),
          Must(IsObjectValue(slides),
               Where("pptx", idx, "slides") \o <<" must be an object of { [slideTitle]: { lines: number; texts?: string[] } }">>) >>
       \o EntryChecks(Entries(slides), idx, "pptx"),
       Get(item, "path").s, "generatePPTX",
       << Obj(<< <<"path", Get(item, "path")>>, <<"slides", slides>> >>) >>,
       <<>>)

ValidateXLSX(item, idx) ==
  LET sheets == Get(item, "sheets")
  IN Outcome(
       << expectString(Get(item, "path"), Where("xlsx", idx, "path")),
          Must(IsObjectValue(sheets),
               Where("xlsx", idx, "sheets") \o <<" must be an object of { [sheetName]: { rows: number; texts?: string[][] } }">>) >>
       \o EntryChecks(Entries(sheets), idx, "xlsx"),
       Get(item, "path").s, "generateXLSX",
       << Obj(<< <<"path", Get(item, "path")>>, <<"sheets", sheets>> >>) >>,
       <<>>)

RowsIgnoredNotice(idx) ==
  <<"csv", "[", ToString(idx), "]", ": 'data' provided, 'rows' will be ignored.">>

ValidateCSV(item, idx) ==
  LET rows == Get(item, "rows")
      data == Get(item, "data")
  IN Outcome(
       << expectString(Get(item, "path"), Where("csv", idx, "path")),
          Optional(rows, expectPositiveInt(rows, Where("csv", idx, "rows"))),
          Optional(data, Must(IsArray(data) /\ Every(data.a, IsObjectValue),
                              Where("csv", idx, "data") \o <<" must be an array of objects">>)) >>,
       Get(item, "path").s, "generateCSV",
       << Obj(<< <<"path", Get(item, "path")>>, <<"rows", rows>>, <<"data", data>> >>) >>,
       IF rows # Undef /\ data # Undef THEN <<RowsIgnoredNotice(idx)>> ELSE <<>>)

\* images.jpg and images.png: only the path is checked
ValidatePathOnly(kind, fn, item, idx) ==
  Outcome(<< expectString(Get(item, "path"), Where(kind, idx, "path")) >>,
          Get(item, "path").s, fn, << Get(item, "path") >>, <<>>)

ImageFormats == << <<"jpeg">>, <<"png">>, <<"webp">>, <<"avif">>, <<"tiff">>, <<"gif">>, <<"heif">> >>

\* allowed.join(", ")
RECURSIVE Join(_, _)
Join(list, sep) ==
  IF list = <<>> THEN <<>>
  ELSE IF Len(list) = 1 THEN Head(list)
  ELSE Head(list) \o <<sep>> \o Join(Tail(list), sep)

ValidateCustomImage(item, idx) ==
  LET create == Get(item, "create")
      output == Get(item, "output")
      format == Get(output, "format")
      k == "images.custom"
  IN Outcome(
       << expectString(Get(item, "path"), Where(k, idx, "path")),
          Must(IsObjectValue(create), Where(k, idx, "create") \o <<" must be an object">>),
          Must(IsObjectValue(output), Where(k, idx, "output") \o <<" must be an object">>),
          expectPositiveInt(Get(create, "width"), Where(k, idx, "create") \o <<".", "width">>),
          expectPositiveInt(Get(create, "height"), Where(k, idx, "create") \o <<".", "height">>),
          Must(format.t = "string", Where(k, idx, "output") \o <<".", "format", " must be a string">>),
          Must(format.t = "string" /\ Includes(ImageFormats, format.s),
               Where(k, idx, "output") \o <<".", "format", " must be one of ">>
                 \o Join(ImageFormats, ", ")) >>,
       Get(item, "path").s, "generateImage",
       << Get(item, "path"), create, output >>, <<>>)

\* audio.wav and audio.mp3
ValidateAudio(kind, fn, item, idx) ==
  LET opts == Get(item, "opts")
  IN Outcome(
       << expectString(Get(item, "path"), Where(kind, idx, "path")),
          expectPositiveNumber(Get(item, "lengthSeconds"), Where(kind, idx, "lengthSeconds")) >>,
       Get(item, "path").s, fn,
       << Get(item, "path"), Get(item, "lengthSeconds"),
          IF IsObjectValue(opts) THEN opts ELSE Undef >>,
       <<>>)

PixelFormats == << <<"yuv420p">>, <<"yuv422p">>, <<"yuv444p">> >>

Presets ==
  << <<"ultrafast">>, <<"superfast">>, <<"veryfast">>, <<"faster">>, <<"fast">>,
     <<"medium">>, <<"slow">>, <<"slower">>, <<"veryslow">> >>

IsDigits(tok) == tok \in {"1", "16", "720", "1280"}

\* /^\d+x\d+$/.test(s)
IsResolution(s) == Len(s) = 3 /\ IsDigits(s[1]) /\ s[2] = "x" /\ IsDigits(s[3])

CrfMax == 51

VideoOptionNames ==
  <<"duration", "resolution", "fps", "background", "crf", "pixelFormat", "preset", "silentAudio">>

\* opts: the supplied options, in the order the handler assigns them
RECURSIVE SuppliedOptions(_, _)
SuppliedOptions(item, names) ==
  IF names = <<>> THEN <<>>
  ELSE (IF Get(item, Head(names)) = Undef THEN <<>>
        ELSE << <<Head(names), Get(item, Head(names))>> >>)
       \o SuppliedOptions(item, Tail(names))

ValidateVideo(item, idx) ==
  LET duration == Get(item, "duration")
      resolution == Get(item, "resolution")
      fps == Get(item, "fps")
      background == Get(item, "background")
      crf == Get(item, "crf")
      pixelFormat == Get(item, "pixelFormat")
      preset == Get(item, "preset")
      silentAudio == Get(item, "silentAudio")
  IN Outcome(
       << expectString(Get(item, "path"), Where("video", idx, "path")),
          Optional(duration, expectPositiveNumber(duration, Where("video", idx, "duration"))),
          Optional(resolution, expectString(resolution, Where("video", idx, "resolution"))),
          Optional(resolution, Must(resolution.t = "string" /\ IsResolution(resolution.s),
                                    Where("video", idx, "resolution") \o <<" must be \"WIDTHxHEIGHT\"">>)),
          Optional(fps, expectPositiveNumber(fps, Where("video", idx, "fps"))),
          Optional(background, expectString(background, Where("video", idx, "background"))),
          Optional(crf, expectPositiveNumber(crf, Where("video", idx, "crf"))),
          Optional(crf, Must(IsFinite(crf) /\ ~(crf.h < 0 \/ crf.h > 2 * CrfMax),
                             Where("video", idx, "crf") \o <<" must be within [0,51]">>)),
          Optional(pixelFormat, expectString(pixelFormat, Where("video", idx, "pixelFormat"))),
          Optional(pixelFormat, Must(pixelFormat.t = "string" /\ Includes(PixelFormats, pixelFormat.s),
                                     Where("video", idx, "pixelFormat") \o <<" must be one of ">>
                                       \o Join(PixelFormats, ", "))),
          Optional(preset, expectString(preset, Where("video", idx, "preset"))),
          Optional(preset, Must(preset.t = "string" /\ Includes(Presets, preset.s),
                                Where("video", idx, "preset") \o <<" must be one of ">>
                                  \o Join(Presets, ", "))),
          Optional(silentAudio, expectBoolean(silentAudio, Where("video", idx, "silentAudio"))) >>,
       Get(item, "path").s, "generateMP4",
       << Get(item, "path"), Obj(SuppliedOptions(item, VideoOptionNames)) >>, <<>>)

FilesCheck(kind, item, idx) ==
  Must(IsStringArray(Get(item, "files")),
       Where(kind, idx, "files") \o <<" must be an array of file paths">>)

ValidateZIP(item, idx) ==
  Outcome(<< expectString(Get(item, "path"), Where("archives.zip", idx, "path")),
             FilesCheck("archives.zip", item, idx) >>,
          Get(item, "path").s, "generateZIP",
          << Get(item, "path"), Get(item, "files") >>, <<>>)

ValidateRAR(item, idx) ==
  LET rarPath == Get(item, "rarPath")
  IN Outcome(<< expectString(Get(item, "path"), Where("archives.rar", idx, "path")),
                FilesCheck("archives.rar", item, idx),
                Optional(rarPath, expectString(rarPath, Where("archives.rar", idx, "rarPath"))) >>,
             Get(item, "path").s, "generateRAR",
             << Get(item, "path"), Get(item, "files"),
                IF rarPath = Undef THEN S("rar") ELSE rarPath >>, <<>>)

(* ---------------------------------------------------------------------- *)
(* The fragments of a plan in processing order: the eleven `if (cfg.x)     *)
(* await handleX(cfg.x)` lines of runFromConfig, with the sub-fragments of *)
(* handleImages, handleAudio and handleArchives in their order.            *)
(* ---------------------------------------------------------------------- *)
Slots ==
  << [key |-> "json", sub |-> "", label |-> "JSON"],
     [key |-> "pdf", sub |-> "", label |-> "PDF"],
     [key |-> "txt", sub |-> "", label |-> "TXT"],
     [key |-> "docx", sub |-> "", label |-> "DOCX"],
     [key |-> "pptx", sub |-> "", label |-> "PPTX"],
     [key |-> "xlsx", sub |-> "", label |-> "XLSX"],
     [key |-> "csv", sub |-> "", label |-> "CSV"],
     [key |-> "images", sub |-> "jpg", label |-> "JPG"],
     [key |-> "images", sub |-> "png", label |-> "PNG"],
     [key |-> "images", sub |-> "custom", label |-> "Custom image"],
     [key |-> "audio", sub |-> "wav", label |-> "WAV"],
     [key |-> "audio", sub |-> "mp3", label |-> "MP3"],
     [key |-> "video", sub |-> "", label |-> "Video"],
     [key |-> "archives", sub |-> "zip", label |-> "ZIP"],
     [key |-> "archives", sub |-> "rar", label |-> "RAR"] >>

NSlots == Len(Slots)

\* the try-block of the handler of slot s up to the generator call
ValidateItem(s, item, idx) ==
  IF item.t \in {"null", "undefined"} THEN Reject(TypeErrorMsg(item, "path"), FALSE)
  ELSE CASE s = 1 -> ValidateJSON(item, idx)
         [] s = 2 -> ValidatePDF(item, idx)
         [] s = 3 -> ValidateTXT(item, idx)
         [] s = 4 -> ValidateDOCX(item, idx)
         [] s = 5 -> ValidatePPTX(item, idx)
         [] s = 6 -> ValidateXLSX(item, idx)
         [] s = 7 -> ValidateCSV(item, idx)
         [] s = 8 -> ValidatePathOnly("images.jpg", "generateJPG", item, idx)
         [] s = 9 -> ValidatePathOnly("images.png", "generatePNG", item, idx)
         [] s = 10 -> ValidateCustomImage(item, idx)
         [] s = 11 -> ValidateAudio("audio.wav", "generateWAV", item, idx)
         [] s = 12 -> ValidateAudio("audio.mp3", "generateMP3", item, idx)
         [] s = 13 -> ValidateVideo(item, idx)
         [] s = 14 -> ValidateZIP(item, idx)
         [] OTHER -> ValidateRAR(item, idx)

\* cfg.key, or cfg.key.sub, when the `if` guards let it through
Fragment(cfg, s) ==
  LET top == Get(cfg, Slots[s].key)
  IN IF ~Truthy(top) THEN Undef
     ELSE IF Slots[s].sub = "" THEN top
     ELSE IF Truthy(Get(top, Slots[s].sub)) THEN Get(top, Slots[s].sub)
     ELSE Undef

\* variant: a bare object is spread into its values instead of being wrapped
ItemsSpread(frag) ==
  IF IsArray(frag) THEN frag.a ELSE [j \in 1..Len(Entries(frag)) |-> Entries(frag)[j][2]]

\* Array.isArray(cfg) ? cfg : [cfg]
Items(frag) == IF IsArray(frag) THEN frag.a ELSE <<frag>>

ItemsAt(cfg, s) == IF Fragment(cfg, s) = Undef THEN <<>> ELSE Items(Fragment(cfg, s))

(* ---------------------------------------------------------------------- *)
(* Generators (doc_generators.ts): the checks they make on their own and   *)
(* what they write.  Every generator can also fail in its encoder or in    *)
(* the file system.                                                        *)
(* ---------------------------------------------------------------------- *)
CsvDefaultRows == 5

FakeRecord == Obj(<< <<"name", S("faker.person.fullName()")>>,
                     <<"email", S("faker.internet.email()")>> >>)

ObjectKeys(v) == [j \in 1..Len(Entries(v)) |-> Entries(v)[j][1]]

\* variant: the key count is not compared
KeysDifferNoCount(record, keys) ==
  ~Every(ObjectKeys(record), LAMBDA k : Includes(keys, k))

\* recordKeys.length !== keys.length || !recordKeys.every(k => keys.includes(k))
KeysDiffer(record, keys) ==
  Len(ObjectKeys(record)) # Len(keys)
    \/ ~Every(ObjectKeys(record), LAMBDA k : Includes(keys, k))

CsvKeyError == <<"All records must have the same keys and key count">>

\* generateCSV up to the writer: the records to write, or the Error thrown
CsvRecords(options) ==
  LET rows == IF Get(options, "rows") = Undef THEN CsvDefaultRows
              ELSE Get(options, "rows").h \div 2
      data == Get(options, "data")
  IN IF Truthy(data) /\ Len(data.a) > 0
     THEN IF \E j \in 1..Len(data.a) : KeysDiffer(data.a[j], ObjectKeys(data.a[1]))
          THEN Fail(CsvKeyError)
          ELSE Ok(data.a)
     ELSE Ok([j \in 1..rows |-> FakeRecord])

CollaboratorError == <<"collaborator failed">>

\* the error of the ffmpeg run of generateMP3, after its WAV file was written
EncoderError == <<"ffmpeg exited with code 1">>

FakeSentence == S("faker.lorem.sentence()")

FakeRow == Arr(<<S("faker.person.fullName()"), S("faker.internet.email()")>>)

HeaderRow == Arr(<<S("Name"), S("Email")>>)

\* variant: past the end of texts the last text is repeated
CycleNoWrap(count, texts, filler) ==
  LET given == IF texts = Undef THEN <<>> ELSE texts.a
      upTo(i) == IF i <= Len(given) THEN i ELSE Len(given)
  IN IF Len(given) = 0 THEN [i \in 1..count |-> filler]
     ELSE [i \in 1..count |-> given[upTo(i)]]

\* the content loop of generatePDF, generateTXT, generateDOCX, generatePPTX and
\* generateXLSX: `texts = []` by default, faker when it is empty, else
\* texts[i % texts.length] for i = 0 .. count - 1
Cycle(count, texts, filler) ==
  LET given == IF texts = Undef THEN <<>> ELSE texts.a
  IN IF Len(given) = 0 THEN [i \in 1..count |-> filler]
     ELSE [i \in 1..count |-> given[((i - 1) % Len(given)) + 1]]

\* a count that passed expectPositiveInt
Count(v) == v.h \div 2

\* content.join("\n\n") of generateTXT
RECURSIVE JoinLines(_)
JoinLines(content) ==
  IF content = <<>> THEN <<>>
  ELSE IF Len(content) = 1 THEN Head(content).s
  ELSE Head(content).s \o <<"\n\n">> \o JoinLines(Tail(content))

\* one slide per entry of slides: its title and its content lines
SlidesOf(slides) ==
  [j \in 1..Len(Entries(slides)) |->
     [name |-> Entries(slides)[j][1],
      content |-> Cycle(Count(Get(Entries(slides)[j][2], "lines")),
                        Get(Entries(slides)[j][2], "texts"), FakeSentence)]]

\* one worksheet per entry of sheets: the header row, then the cycled rows
SheetsOf(sheets) ==
  [j \in 1..Len(Entries(sheets)) |->
     [name |-> Entries(sheets)[j][1],
      rows |-> <<HeaderRow>> \o Cycle(Count(Get(Entries(sheets)[j][2], "rows")),
                                      Get(Entries(sheets)[j][2], "texts"), FakeRow)]]

\* the defaults of generateMP4's destructuring
VideoDefaults ==
  << <<"duration", Num(1)>>, <<"resolution", Str(<<"1280", "x", "720">>)>>,
     <<"fps", Num(30)>>, <<"background", S("black")>>, <<"crf", Num(23)>>,
     <<"pixelFormat", S("yuv420p")>>, <<"preset", S("medium")>>,
     <<"silentAudio", Bool(TRUE)>> >>

\* variant: `opts.x || default`, a falsy option takes the default too
ResolvedOrDefault(opts) ==
  Obj([j \in 1..Len(VideoDefaults) |->
         <<VideoDefaults[j][1],
           IF ~Truthy(Get(opts, VideoDefaults[j][1])) THEN VideoDefaults[j][2]
           ELSE Get(opts, VideoDefaults[j][1])>>])

\* const { duration = 1, ... } = opts: the default where opts has undefined
Resolved(opts) ==
  Obj([j \in 1..Len(VideoDefaults) |->
         <<VideoDefaults[j][1],
           IF Get(opts, VideoDefaults[j][1]) = Undef THEN VideoDefaults[j][2]
           ELSE Get(opts, VideoDefaults[j][1])>>])

\* the checks generateMP4 makes on the resolved options
Mp4Checks(o) ==
  FirstFail(
    << Must(IsFinite(Get(o, "duration")) /\ Get(o, "duration").h > 0,
            <<"duration must be a positive number (seconds).">>),
       Must(Get(o, "resolution").t = "string" /\ IsResolution(Get(o, "resolution").s),
            <<"resolution must be a string like \"1280x720\".">>),
       Must(IsFinite(Get(o, "fps")) /\ Get(o, "fps").h > 0,
            <<"fps must be a positive number.">>),
       Must(IsFinite(Get(o, "crf")) /\ Get(o, "crf").h >= 0 /\ Get(o, "crf").h <= 2 * CrfMax,
            <<"crf must be in [0,51]. Lower is higher quality.">>) >>)

\* the check generateWAV makes on lengthSeconds (generateMP3 calls generateWAV)
WavChecks(lengthSeconds) ==
  Must(IsFinite(lengthSeconds) /\ lengthSeconds.h > 0,
       <<"lengthSeconds must be a positive number.">>)

\* the input checks a generator makes on its own before it encodes or writes
OwnChecks(call) ==
  CASE call.fn = "generateCSV" ->
         IF CsvRecords(call.args[1]).ok THEN Pass ELSE Fail(CsvKeyError)
    [] call.fn = "generateMP4" -> Mp4Checks(Resolved(call.args[2]))
    [] call.fn \in {"generateWAV", "generateMP3"} -> WavChecks(call.args[2])
    [] OTHER -> Pass

\* what a generator writes to its output path when nothing fails
Written(call) ==
  LET o == call.args[1]
  IN CASE call.fn = "generateJSON" ->
            [data |-> IF Get(o, "data") \in {Undef, Null} THEN FakeRecord ELSE Get(o, "data"),
             indent |-> IF Get(o, "pretty").b THEN 2 ELSE 0]
       [] call.fn \in {"generatePDF", "generateDOCX"} ->
            Cycle(Count(Get(o, "lines")), Get(o, "texts"), FakeSentence)
       [] call.fn = "generateTXT" ->
            JoinLines(Cycle(Count(Get(o, "lines")), Get(o, "texts"), FakeSentence))
       [] call.fn = "generatePPTX" -> SlidesOf(Get(o, "slides"))
       [] call.fn = "generateXLSX" -> SheetsOf(Get(o, "sheets"))
       [] call.fn = "generateMP4" -> Resolved(call.args[2])
       [] OTHER -> call.args

\* s.replace(from, to) with a string pattern: the first occurrence only
RECURSIVE ReplaceFirst(_, _, _)
ReplaceFirst(s, from, to) ==
  IF s = <<>> THEN <<>>
  ELSE IF Head(s) = from THEN <<to>> \o Tail(s)
  ELSE <<Head(s)>> \o ReplaceFirst(Tail(s), from, to)

\* generateMP3: const wavPath = path.replace(".mp3", ".wav")
WavPath(path) == ReplaceFirst(path, ".mp3", ".wav")

\* variant: a path that already holds a file is left as it is
WriteFileIfAbsent(fs, path, content) == fs @@ (path :> content)

\* fs.writeFileSync / createWriteStream on path: the file is created or replaced
WriteFile(fs, path, content) == (path :> content) @@ fs

\* how the promise of a generator call can settle
Settlements(call) ==
  IF call.fn = "generateCSV"
  THEN LET r == CsvRecords(call.args[1])
       IN IF r.ok THEN {[ok |-> TRUE, content |-> [fn |-> call.fn, body |-> r.v]],
                        Fail(CollaboratorError)}
          ELSE {r}
  ELSE IF call.fn = "generateMP4" /\ ~Mp4Checks(Resolved(call.args[2])).ok
  THEN {Fail(Mp4Checks(Resolved(call.args[2])).msg)}
  ELSE IF call.fn \in {"generateWAV", "generateMP3"} /\ ~WavChecks(call.args[2]).ok
  THEN {Fail(WavChecks(call.args[2]).msg)}
  ELSE {[ok |-> TRUE, content |-> [fn |-> call.fn, body |-> Written(call)]],
        Fail(CollaboratorError)}
       \cup (IF call.fn = "generateMP3" THEN {Fail(EncoderError)} ELSE {})

\* the WAV file generateMP3 writes before it runs ffmpeg: generateWAV(wavPath, ...)
WavFile(call) ==
  [fn |-> "generateWAV",
   body |-> Written([fn |-> "generateWAV",
                     args |-> <<Str(WavPath(call.args[1].s)), call.args[2], call.args[3]>>])]

\* the files a generator call has written, in order, when it settles with r
Writes(call, r) ==
  LET path == IF call.args[1].t = "object" THEN Get(call.args[1], "path").s
              ELSE call.args[1].s
  IN IF call.fn = "generateMP3"
     THEN IF r.ok THEN << <<WavPath(path), WavFile(call)>>, <<path, r.content>> >>
          ELSE IF r.msg = EncoderError THEN << <<WavPath(path), WavFile(call)>> >>
          ELSE <<>>
     ELSE IF r.ok THEN << <<path, r.content>> >> ELSE <<>>

RECURSIVE ApplyWrites(_, _)
ApplyWrites(fs, writes) ==
  IF writes = <<>> THEN fs
  ELSE ApplyWrites(WriteFile(fs, Head(writes)[1], Head(writes)[2]), Tail(writes))

(* ---------------------------------------------------------------------- *)
(* State                                                                   *)
(* ---------------------------------------------------------------------- *)
VARIABLES
  argGiven,    \* process.argv[2] is there
  fileExists,  \* fs.existsSync(configPath)
  doc,         \* what yaml.load returns for the file, or Unreadable
  pc,          \* "main", "loadYaml", "outputDir", "handlers", "await", "exited"
  cfg,         \* the loaded plan
  cur,         \* [s, i]: the slot and index of the item in hand
  pending,     \* the generator call awaited
  dirs,        \* directories created
  files,       \* files written: output path -> content
  calls,       \* generator invocations so far, in order
  events,      \* per-item steps so far, in order
  failure,     \* the Error that ended the run, if any
  stdout,      \* console.log lines
  stderr,      \* console.error lines
  exitCode,    \* process exit code, -1 while running
  probe,       \* a value handed to the validators on its own, and their results
  procs,       \* the ensureDirFor call of each process sharing the file system
  srv          \* the HTTP service: requests, temp files, files on disk

vars == <<argGiven, fileExists, doc, pc, cfg, cur, pending, dirs, files, calls,
          events, failure, stdout, stderr, exitCode, probe, procs, srv>>

inputs == <<argGiven, fileExists, doc, probe, procs, srv>>

run == <<argGiven, fileExists, doc, pc, cfg, cur, pending, dirs, files, calls,
         events, failure, stdout, stderr, exitCode>>

\* all of run but dirs
runButDirs == <<argGiven, fileExists, doc, pc, cfg, cur, pending, files, calls,
                events, failure, stdout, stderr, exitCode>>

NoProbe == [applied |-> FALSE]

NoServer == [reqs |-> <<>>]

Unreadable == [t |-> "throw"]

NoFailure == [kind |-> "none"]

NoCall == [fn |-> "none"]

Running == -1

(* ---------------------------------------------------------------------- *)
(* Logging                                                                 *)
(* ---------------------------------------------------------------------- *)
\* error(msg, cause): the lines it prints
ErrorLines(msg, withCause, causeMsg) ==
  << <<"[file-fabric] ERROR: ">> \o msg >>
  \o (IF withCause THEN << <<"Cause: ">> \o causeMsg >> ELSE <<>>)

\* info(msg)
InfoLine(msg) == <<"[file-fabric] ">> \o msg

UsageLines ==
  << <<"Usage: ts-node generator_from_yaml.ts path/to/config.yml">>,
     <<"   or: node dist/generator_from_yaml.js path/to/config.yml">> >>

Hint(s) ==
  IF Slots[s].label \in {"MP3", "Video"}
  THEN ErrorLines(<<"Hint: ", IF Slots[s].label = "MP3" THEN "MP3" ELSE "MP4",
                    " requires ffmpeg (provided via ffmpeg-static on supported platforms).">>,
                  FALSE, <<>>)
  ELSE IF Slots[s].label = "RAR"
  THEN ErrorLines(<<"Hint: RAR requires a system 'rar' CLI installed and accessible in PATH or via 'rarPath'.">>,
                  FALSE, <<>>)
  ELSE <<>>

\* the catch block of a handler: what it prints before rethrowing
CatchLines(s, idx, msg) ==
  ErrorLines(<<Slots[s].label, " generation failed at index ", ToString(idx)>>, TRUE, msg)
  \o Hint(s)

\* the output path a generator call writes to
CallPath(call) ==
  IF call.args[1].t = "object" THEN Get(call.args[1], "path").s ELSE call.args[1].s

GeneratedLine(s, call) ==
  InfoLine(<<"Generated ", Slots[s].label, " -> ">> \o CallPath(call))

(* ---------------------------------------------------------------------- *)
(* The orchestrator                                                        *)
(* ---------------------------------------------------------------------- *)
\* the top-level keys runFromConfig reads
KnownKeys ==
  {"outputDir", "json", "pdf", "txt", "docx", "pptx", "xlsx", "csv", "images", "audio",
   "video", "archives"}

\* variant: a mapping with a key that is not read is refused
loadYamlStrict(d) ==
  IF d = Unreadable THEN Fail(<<"Failed to read/parse YAML: ", "<configPath>", ". ", "<parse error>">>)
  ELSE IF ~Truthy(d) \/ TypeOf(d) # "object"
  THEN Fail(<<"Failed to read/parse YAML: ", "<configPath>", ". ",
              "YAML root must be a mapping (object).">>)
  ELSE IF d.t = "object" /\ \E j \in 1..Len(d.e) : d.e[j][1] \notin KnownKeys
  THEN Fail(<<"Failed to read/parse YAML: ", "<configPath>", ". ", "unknown key">>)
  ELSE Ok(d)

\* loadYaml: the plan, or the Error thrown
loadYaml(d) ==
  IF d = Unreadable THEN Fail(<<"Failed to read/parse YAML: ", "<configPath>", ". ", "<parse error>">>)
  ELSE IF ~Truthy(d) \/ TypeOf(d) # "object"
  THEN Fail(<<"Failed to read/parse YAML: ", "<configPath>", ". ",
              "YAML root must be a mapping (object).">>)
  ELSE Ok(d)

SlotsOfKey(key) == SelectSeq([j \in 1..NSlots |-> j], LAMBDA j : Slots[j].key = key)

RECURSIVE SlotsOfKeys(_)
SlotsOfKeys(keys) ==
  IF keys = <<>> THEN <<>> ELSE SlotsOfKey(Head(keys)) \o SlotsOfKeys(Tail(keys))

\* variant: the sections are visited in the order of the plan's keys
PlanKeyOrder(c) ==
  LET listed == SlotsOfKeys(ObjectKeys(c))
  IN listed \o SelectSeq([j \in 1..NSlots |-> j], LAMBDA j : ~Includes(listed, j))

\* the order in which runFromConfig visits the slots
ProcessingOrder(c) == [j \in 1..NSlots |-> j]

\* the first item at or after position i of the k-th slot visited
RECURSIVE NextPos(_, _, _)
NextPos(c, k, i) ==
  IF k > NSlots THEN [k |-> k, i |-> 0]
  ELSE IF i < Len(ItemsAt(c, ProcessingOrder(c)[k])) THEN [k |-> k, i |-> i]
  ELSE NextPos(c, k + 1, 0)

MkdirError == <<"EACCES: permission denied, mkdir">>

\* variant: main's catch does not exit, the process stays alive
AbortNoExit(err) ==
  /\ failure' = err
  /\ exitCode' = exitCode
  /\ pc' = "hung"

\* the exception reaches main's catch: process.exit(1)
Abort(err) ==
  /\ failure' = err
  /\ exitCode' = 1
  /\ pc' = "exited"

\* variant: the catch block logs and the loop goes on with the next item
Swallow(err, pos) ==
  /\ failure' = err
  /\ exitCode' = exitCode
  /\ pc' = "handlers"
  /\ cur' = [k |-> pos.k, i |-> pos.i + 1]

\* `throw e` in a handler's catch block: the run ends at the item at pos
Rethrow(err, pos) ==
  /\ Abort(err)
  /\ cur' = pos

Event(op, s, i) == [op |-> op, s |-> s, i |-> i]

\* variant: the generator is called without `await`, the loop goes on at once
FireAndForget(call) ==
  /\ pending' = call
  /\ pc' = "handlers"

\* `await generateX(...)`: the handler is suspended until the call settles
Suspend(call) ==
  /\ pending' = call
  /\ pc' = "await"

Main ==
  /\ pc = "main"
  /\ IF ~argGiven
     THEN /\ stderr' = stderr \o UsageLines
          /\ exitCode' = 2
          /\ pc' = "exited"
     ELSE IF ~fileExists
     THEN /\ stderr' = stderr \o ErrorLines(<<"Config file not found: ", "<configPath>">>, FALSE, <<>>)
          /\ exitCode' = 2
          /\ pc' = "exited"
     ELSE /\ pc' = "loadYaml"
          /\ UNCHANGED <<stderr, exitCode>>
  /\ UNCHANGED <<inputs, cfg, cur, pending, dirs, files, calls, events, failure, stdout>>

\* runFromConfig, first line
LoadYaml ==
  /\ pc = "loadYaml"
  /\ LET r == loadYaml(doc)
     IN IF r.ok
        THEN /\ cfg' = r.v
             /\ pc' = "outputDir"
             /\ UNCHANGED <<failure, exitCode>>
        ELSE /\ Abort([kind |-> "load", msg |-> r.msg])
             /\ UNCHANGED cfg
  /\ UNCHANGED <<inputs, cur, pending, dirs, files, calls, events, stdout, stderr>>

WantsOutputDir(c) ==
  LET od == Get(c, "outputDir")
  IN Truthy(od) /\ od.t = "string" /\ Trim(od.s) # <<>>

\* runFromConfig, the outputDir block
EnsureOutputDir ==
  /\ pc = "outputDir"
  /\ IF WantsOutputDir(cfg)
     THEN \/ /\ dirs' = dirs \cup DirChain(Get(cfg, "outputDir").s)
             /\ stdout' = Append(stdout, InfoLine(<<"Ensured outputDir: ">> \o Get(cfg, "outputDir").s))
             /\ pc' = "handlers"
             /\ UNCHANGED <<failure, exitCode>>
          \/ /\ Abort([kind |-> "outputDir", msg |-> MkdirError])
             /\ UNCHANGED <<dirs, stdout>>
     ELSE /\ pc' = "handlers"
          /\ UNCHANGED <<dirs, stdout, failure, exitCode>>
  /\ cur' = [k |-> 1, i |-> 0]
  /\ UNCHANGED <<inputs, cfg, pending, files, calls, events, stderr>>

\* a handler's loop body up to the await: validate, ensureDirFor, call
BeginItem ==
  /\ pc = "handlers"
  /\ LET pos == NextPos(cfg, cur.k, cur.i)
     IN /\ pos.k <= NSlots
        /\ LET s == ProcessingOrder(cfg)[pos.k]
               item == ItemsAt(cfg, s)[pos.i + 1]
               v == ValidateItem(s, item, pos.i)
           IN IF ~v.ok
              THEN /\ events' = events \o <<Event("validate", s, pos.i)>>
                                  \o (IF v.dirEnsured THEN <<Event("mkdir", s, pos.i)>> ELSE <<>>)
                                  \o <<Event("reject", s, pos.i)>>
                   /\ dirs' = IF v.dirEnsured THEN ensureDirFor(dirs, Get(item, "path").s) ELSE dirs
                   /\ stderr' = stderr \o CatchLines(s, pos.i, v.msg)
                   /\ Rethrow([kind |-> "validation", msg |-> v.msg, s |-> s, i |-> pos.i], pos)
                   /\ UNCHANGED <<stdout, calls, pending>>
              ELSE /\ stdout' = stdout \o [j \in 1..Len(v.notes) |-> InfoLine(v.notes[j])]
                   /\ \/ /\ dirs' = ensureDirFor(dirs, v.path)
                         /\ events' = events \o <<Event("validate", s, pos.i), Event("mkdir", s, pos.i),
                                                  Event("invoke", s, pos.i)>>
                         /\ calls' = Append(calls, [s |-> s, i |-> pos.i, call |-> v.call])
                         /\ Suspend(v.call)
                         /\ cur' = pos
                         /\ UNCHANGED <<stderr, failure, exitCode>>
                      \/ /\ events' = events \o <<Event("validate", s, pos.i), Event("fail", s, pos.i)>>
                         /\ stderr' = stderr \o CatchLines(s, pos.i, MkdirError)
                         /\ Rethrow([kind |-> "mkdir", msg |-> MkdirError, s |-> s, i |-> pos.i], pos)
                         /\ UNCHANGED <<dirs, calls, pending>>
  /\ UNCHANGED <<inputs, cfg, files>>

\* the awaited generator settles; the handler logs and goes on, or rethrows
Settle ==
  /\ pc = "await"
  /\ LET s == ProcessingOrder(cfg)[cur.k]
     IN \E r \in Settlements(pending) :
          IF r.ok
          THEN /\ files' = ApplyWrites(files, Writes(pending, r))
               /\ stdout' = Append(stdout, GeneratedLine(s, pending))
               /\ events' = Append(events, Event("done", s, cur.i))
               /\ cur' = [k |-> cur.k, i |-> cur.i + 1]
               /\ pc' = "handlers"
               /\ UNCHANGED <<stderr, failure, exitCode>>
          ELSE /\ stderr' = stderr \o CatchLines(s, cur.i, r.msg)
               /\ events' = Append(events, Event("fail", s, cur.i))
               /\ Rethrow([kind |-> "generator", msg |-> r.msg, s |-> s, i |-> cur.i], cur)
               /\ files' = ApplyWrites(files, Writes(pending, r))
               /\ UNCHANGED stdout
  /\ pending' = NoCall
  /\ UNCHANGED <<inputs, cfg, dirs, calls>>

\* every handler has returned: info("Done."), and the process ends with code 0
Finish ==
  /\ pc = "handlers"
  /\ NextPos(cfg, cur.k, cur.i).k > NSlots
  /\ stdout' = Append(stdout, InfoLine(<<"Done.">>))
  /\ exitCode' = 0
  /\ pc' = "exited"
  /\ UNCHANGED <<inputs, cfg, cur, pending, dirs, files, calls, events, failure, stderr>>

(* ---------------------------------------------------------------------- *)
(* Plans                                                                   *)
(* ---------------------------------------------------------------------- *)
Ext(s) ==
  << ".json", ".pdf", ".txt", ".docx", ".pptx", ".xlsx", ".csv", ".jpg", ".png", ".webp",
     ".wav", ".mp3", ".mp4", ".zip", ".rar" >>[s]

Deep(s) == Str(<<"out", "/", "sub", "/", "f", Ext(s)>>)

Flat(s) == Str(<<"x", Ext(s)>>)

O1(k1, v1) == Obj(<< <<k1, v1>> >>)

O2(k1, v1, k2, v2) == Obj(<< <<k1, v1>>, <<k2, v2>> >>)

O3(k1, v1, k2, v2, k3, v3) == Obj(<< <<k1, v1>>, <<k2, v2>>, <<k3, v3>> >>)

Blank == Str(<<" ">>)

Texts == Arr(<<S("x"), S("y")>>)

\* request objects per slot; the first is valid, the second is rejected by a field check
Catalogue(s) ==
  CASE s = 1 ->
         << O1("path", Deep(s)),
            O2("path", Deep(s), "pretty", S("yes")),
            O3("path", Flat(s), "pretty", Bool(FALSE), "data", O1("a", Num(1))),
            O2("path", Deep(s), "data", Num(5)),
            O1("path", Blank), Null >>
    [] s = 2 ->
         << O2("path", Deep(s), "lines", Num(2)),
            O2("path", Flat(s), "lines", Num(-1)),
            Obj(<< <<"path", Flat(s)>>, <<"title", S("T")>>, <<"fontSize", Num(16)>>,
                   <<"lines", Num(1)>>, <<"texts", Texts>> >>),
            O3("path", Deep(s), "fontSize", Num(0), "lines", Num(1)),
            O3("path", Deep(s), "lines", Num(1), "texts", S("x")),
            O3("path", Deep(s), "title", Blank, "lines", Num(1)), Null >>
    [] s \in {3, 4} ->
         << O3("path", Deep(s), "lines", Num(3), "texts", Texts),
            O2("path", Deep(s), "lines", IF s = 3 THEN Num(0) ELSE NaN),
            O2("path", Flat(s), "lines", Num(1)),
            O2("path", Deep(s), "lines", IF s = 3 THEN S("5") ELSE NumH(3)),
            O3("path", Deep(s), "lines", Num(1), "texts", Arr(<<Num(5)>>)),
            O1("lines", Num(1)), Null >>
    [] s \in {5, 6} ->
         LET sub == IF s = 5 THEN "slides" ELSE "sheets"
             n == IF s = 5 THEN "lines" ELSE "rows"
             t == IF s = 5 THEN Texts ELSE Arr(<<Texts, Arr(<<S("z")>>)>>)
         IN << O2("path", Deep(s), sub,
                  O3("Intro", O1(n, Num(1)), "Team", O2(n, Num(3), "texts", t),
                     "End", O2(n, Num(1), "texts", t))),
               O2("path", Deep(s), sub, O2("Intro", O1(n, Num(1)), "Team", O1(n, Num(0)))),
               O2("path", Flat(s), sub, Obj(<<>>)),
               O2("path", Deep(s), sub, Num(5)),
               O2("path", Deep(s), sub, O1("Intro", Num(5))),
               O2("path", Deep(s), sub, O1("Intro", O2(n, Num(1), "texts", Arr(<<Num(1)>>)))),
               O1("path", Deep(s)), Null >>
    [] s = 7 ->
         << O1("path", Deep(s)),
            O2("path", Deep(s), "rows", Num(-1)),
            O2("path", Flat(s), "rows", Num(3)),
            O2("path", Deep(s), "data", Arr(<<O1("a", Num(1)), O1("a", Num(2))>>)),
            O3("path", Deep(s), "rows", Num(5), "data", Arr(<<O1("a", Num(1))>>)),
            O3("path", Deep(s), "rows", Num(2), "data", Arr(<<>>)),
            O2("path", Deep(s), "data", Arr(<<>>)),
            O2("path", Deep(s), "data",
               Arr(<<O2("name", S("n"), "email", S("e")), O1("name", S("m"))>>)),
            O2("path", Deep(s), "data",
               Arr(<<O2("a", Num(1), "b", Num(2)), O2("b", Num(3), "a", Num(4))>>)),
            O2("path", Deep(s), "data", Arr(<<O1("a", Num(1)), O1("b", Num(2))>>)),
            O3("path", Deep(s), "rows", Num(1), "data",
               Arr(<<O1("a", Num(1)), O2("a", Num(2), "b", Num(3))>>)),
            O2("path", Deep(s), "data", Arr(<<Num(5)>>)), Null >>
    [] s \in {8, 9} ->
         << O1("path", Deep(s)), O1("path", Num(5)), O1("path", Flat(s)), Obj(<<>>), Null >>
    [] s = 10 ->
         LET c == O2("width", Num(1), "height", Num(1))
         IN << O3("path", Deep(s), "create", c, "output", O1("format", S("webp"))),
               O3("path", Deep(s), "create", c, "output", O1("format", S("bmp"))),
               O3("path", Deep(s), "create", c, "output", O1("format", S("PNG"))),
               O3("path", Deep(s), "create", c, "output", O1("format", Num(5))),
               O3("path", Deep(s), "create", O2("width", Num(0), "height", Num(1)),
                  "output", O1("format", S("png"))),
               O3("path", Deep(s), "create", O1("width", Num(1)), "output", O1("format", S("png"))),
               O2("path", Deep(s), "output", O1("format", S("png"))),
               O3("path", Deep(s), "create", c, "output", S("png")), Null >>
    [] s \in {11, 12} ->
         << O2("path", Deep(s), "lengthSeconds", NumH(3)),
            O2("path", Deep(s), "lengthSeconds", Num(0)),
            O3("path", Flat(s), "lengthSeconds", Num(1), "opts", O1("noise", S("white"))),
            O3("path", Flat(s), "lengthSeconds", Num(1), "opts", S("loud")),
            O2("path", Deep(s), "lengthSeconds", Infinity),
            O1("path", Deep(s)), Null >>
         \o (IF s = 12 THEN <<O2("path", Str(<<"out", "/", "song">>), "lengthSeconds", Num(1))>>
             ELSE <<>>)
    [] s = 13 ->
         << O1("path", Deep(s)),
            O2("path", Deep(s), "crf", Num(52)),
            Obj(<< <<"path", Flat(s)>>, <<"silentAudio", Bool(FALSE)>>, <<"duration", NumH(3)>>,
                   <<"resolution", Str(<<"16", "x", "16">>)>>, <<"fps", Num(1)>>,
                   <<"background", S("red")>>, <<"crf", Num(51)>>,
                   <<"pixelFormat", S("yuv444p")>>, <<"preset", S("fast")>> >>),
            O2("path", Deep(s), "crf", Num(0)),
            O2("path", Deep(s), "resolution", Str(<<"1280", "-", "720">>)),
            O2("path", Deep(s), "pixelFormat", S("rgb24")),
            O2("path", Deep(s), "preset", S("Medium")),
            O2("path", Deep(s), "silentAudio", S("yes")),
            O2("path", Deep(s), "duration", Infinity),
            O2("path", Deep(s), "fps", Num(0)),
            O2("path", Deep(s), "background", Blank),
            Obj(<< <<"path", Deep(s)>>, <<"silentAudio", Bool(FALSE)>>, <<"crf", NumH(1)>>,
                   <<"preset", S("slow")>> >>),
            Null >>
    [] OTHER ->
         << O2("path", Deep(s), "files", Arr(<<S("a.txt")>>)),
            O1("path", Deep(s)),
            O2("path", Flat(s), "files", Arr(<<>>)),
            O2("path", Deep(s), "files", Arr(<<Num(5)>>)),
            O3("path", Deep(s), "files", Arr(<<S("a.txt")>>), "rarPath",
               IF s = 15 THEN Blank ELSE S("rar")),
            O3("path", Deep(s), "files", Arr(<<S("a.txt")>>), "rarPath", S("/opt/rar")),
            Null >>

Range(seq) == {seq[j] : j \in 1..Len(seq)}

\* sequences over a set, of length 0..n
RECURSIVE SeqsUpTo(_, _)
SeqsUpTo(set, n) ==
  IF n = 0 THEN {<<>>}
  ELSE LET shorter == SeqsUpTo(set, n - 1)
       IN shorter \cup {Append(q, x) : q \in {r \in shorter : Len(r) = n - 1}, x \in set}

\* the fragments of one slot: a single request object or a list of them
Fragments(s) ==
  Range(Catalogue(s)) \cup {Arr(q) : q \in SeqsUpTo(Range(Catalogue(s)), MaxItems)}

\* the value of a top-level key that holds the fragment of slot s
Section(s, frag) == IF Slots[s].sub = "" THEN frag ELSE O1(Slots[s].sub, frag)

\* plans with one section, any fragment
DeepPlans == {O1(Slots[s].key, Section(s, f)) : <<s, f>> \in UNION {{s} \X Fragments(s) : s \in 1..NSlots}}

TopKeys ==
  {"json", "pdf", "txt", "docx", "pptx", "xlsx", "csv", "images", "audio", "video",
   "archives", "outputDir", "extra"}

Good(s) == Catalogue(s)[1]

Bad(s) == Catalogue(s)[2]

\* the values a key takes in a plan of several sections
TopValues(key) ==
  CASE key = "images" -> {O2("png", Good(9), "jpg", Arr(<<Good(8)>>)), Arr(<<Good(8)>>),
                          O2("custom", Bad(10), "png", Good(9))}
    [] key = "audio" -> {O2("mp3", O2("path", Deep(12), "lengthSeconds", Num(2)), "wav", Good(11)),
                         Arr(<<Good(11)>>)}
    [] key = "archives" -> {O2("rar", Good(15), "zip", Good(14)), S("zip")}
    [] key = "outputDir" -> {Str(<<"out", "/", "dir">>), Num(5)}
    [] key = "extra" -> {O1("path", S("ignored")), Null, Arr(<<Good(1)>>)}
    [] key = "json" -> {Good(1), Bad(1), Null}
    [] key = "pdf" -> {Good(2), Bad(2), O2("path", Deep(1), "lines", Num(1))}
    [] OTHER -> LET s == CHOOSE j \in 1..NSlots : Slots[j].key = key
                IN {Good(s), Bad(s)}

RECURSIVE EntriesOver(_)
EntriesOver(keys) ==
  IF keys = <<>> THEN {<<>>}
  ELSE {<< <<Head(keys), v>> >> \o rest : v \in TopValues(Head(keys)), rest \in EntriesOver(Tail(keys))}

Distinct(q) == \A a, b \in 1..Len(q) : a # b => q[a] # q[b]

\* plans with up to MaxKeys sections, in any key order
WidePlans ==
  {Obj(e) : e \in UNION {EntriesOver(q) : q \in {r \in SeqsUpTo(TopKeys, MaxKeys) : Distinct(r)}}}

\* what yaml.load can return for files whose root is not a mapping
OtherRoots ==
  {Unreadable, Null, Undef, S("scalar"), Num(5), Bool(TRUE),
   Arr(<<>>), Arr(<<O1("json", Good(1))>>), Arr(<<Good(2), Bad(2)>>)}

Docs == DeepPlans \cup WidePlans \cup OtherRoots

Init ==
  /\ argGiven \in BOOLEAN
  /\ fileExists \in BOOLEAN
  /\ doc \in Docs
  /\ ~argGiven => ~fileExists
  /\ ~fileExists => doc = Unreadable
  /\ pc = "main"
  /\ cfg = Undef
  /\ cur = [k |-> 1, i |-> 0]
  /\ pending = NoCall
  /\ dirs = {}
  /\ files = <<>>
  /\ calls = <<>>
  /\ events = <<>>
  /\ failure = NoFailure
  /\ stdout = <<>>
  /\ stderr = <<>>
  /\ exitCode = Running
  /\ probe = NoProbe
  /\ procs = <<>>
  /\ srv = NoServer

Next == Main \/ LoadYaml \/ EnsureOutputDir \/ BeginItem \/ Settle \/ Finish

(* ---------------------------------------------------------------------- *)
(* Properties                                                              *)
(* ---------------------------------------------------------------------- *)
ItemFailures == {"validation", "mkdir", "generator"}

LastEvent == events[Len(events)]

LastCall == calls[Len(calls)]

Generated == Cardinality({j \in 1..Len(events) : events[j].op = "done"})

\* C1: fail-fast.  Once an item has failed (rejected by its handler, or its
\* generator or directory creation failed) nothing more happens: the failing
\* step is the last step of the run, and the run has ended with exit code 1.
C1_FailFast ==
  /\ \A j \in 1..Len(events) :
       events[j].op \in {"reject", "fail"} =>
         j = Len(events) /\ failure.kind \in ItemFailures
  /\ failure.kind \in ItemFailures => pc = "exited" /\ exitCode = 1

\* an item failed while the plan still lists items after it
C1_Witness ==
  /\ failure.kind \in ItemFailures
  /\ NextPos(cfg, cur.k, cur.i + 1).k <= NSlots

\* C2: the step in which a handler's field check rejects an item creates no
\* directory and invokes no generator, and the log holds no directory creation
\* and no generator invocation for that item.
C2_RejectBeforeSideEffects ==
  [][(failure.kind = "none" /\ failure'.kind = "validation") =>
       /\ dirs' = dirs
       /\ calls' = calls
       /\ files' = files
       /\ \A j \in 1..Len(events') :
            (events'[j].s = failure'.s /\ events'[j].i = failure'.i)
              => events'[j].op \in {"validate", "reject"}]_vars

\* a pdf item with a valid nested path was rejected for a later field, and the
\* directory of its path does not exist
C2_Witness ==
  /\ failure.kind = "validation"
  /\ failure.s = 2
  /\ failure.msg = Where("pdf", failure.i, "fontSize") \o <<" must be a positive integer">>
  /\ Dirname(Get(ItemsAt(cfg, 2)[failure.i + 1], "path").s) = <<"out", "/", "sub">>
  /\ <<"out", "/", "sub">> \notin dirs

\* the request objects a value lists: the elements of a list, or the object itself
ListedUnder(v) == IF IsArray(v) THEN Len(v.a) ELSE IF v.t = "object" THEN 1 ELSE 0

SubKinds(key) ==
  CASE key = "images" -> <<"jpg", "png", "custom">>
    [] key = "audio" -> <<"wav", "mp3">>
    [] key = "archives" -> <<"zip", "rar">>
    [] OTHER -> <<>>

RECURSIVE SumOver(_, _, _)
SumOver(v, names, j) ==
  IF j > Len(names) THEN 0 ELSE ListedUnder(Get(v, names[j])) + SumOver(v, names, j + 1)

\* the items of one section of the plan
ListedIn(c, key) ==
  LET v == Get(c, key)
  IN IF SubKinds(key) = <<>> \/ IsArray(v) THEN ListedUnder(v)
     ELSE SumOver(v, SubKinds(key), 1)

SectionKeys ==
  <<"json", "pdf", "txt", "docx", "pptx", "xlsx", "csv", "images", "audio", "video", "archives">>

RECURSIVE ListedFrom(_, _)
ListedFrom(c, j) ==
  IF j > Len(SectionKeys) THEN 0 ELSE ListedIn(c, SectionKeys[j]) + ListedFrom(c, j + 1)

\* the number of items in the sections of the plan file
Listed == IF doc = Unreadable THEN 0 ELSE ListedFrom(doc, 1)

\* C3: exit code 2 when the argument or the file is missing, 1 when an item
\* failed, and 0 exactly when every item of every present section was generated.
C3_ExitCodes ==
  pc = "exited" =>
    /\ (~argGiven \/ ~fileExists) => exitCode = 2
    /\ failure.kind \in ItemFailures => exitCode = 1
    /\ exitCode = 0 => Generated = Listed
    /\ (Listed > 0 /\ Generated = Listed) => exitCode = 0

\* C4: generator invocations follow the fixed slot order json, pdf, txt, docx,
\* pptx, xlsx, csv, jpg, png, custom, wav, mp3, video, zip, rar, whatever the
\* order of the keys in the plan, and within a fragment the list order from 0.
C4_FixedOrder ==
  /\ \A a, b \in 1..Len(calls) :
       a < b => \/ calls[a].s < calls[b].s
                \/ (calls[a].s = calls[b].s /\ calls[a].i < calls[b].i)
  /\ \A a \in 1..Len(calls) :
       calls[a].i = Cardinality({b \in 1..(a - 1) : calls[b].s = calls[a].s})

KeyIndex(c, key) == CHOOSE j \in 1..Len(c.e) : c.e[j][1] = key

\* two generators ran, for sections the plan lists in the opposite order
C4_Witness ==
  /\ Len(calls) >= 2
  /\ cfg.t = "object"
  /\ Slots[calls[1].s].key # Slots[calls[2].s].key
  /\ KeyIndex(cfg, Slots[calls[1].s].key) > KeyIndex(cfg, Slots[calls[2].s].key)

InHand == pc = "await" \/ failure.kind \in ItemFailures

HandSlot == ProcessingOrder(cfg)[cur.k]

\* C5: an item given as a bare object is handled as the one-element list of it
\* is: same acceptance, same error message (location label with index 0), same
\* directories, same generator call.
C5_SingleAsList ==
  (InHand /\ ~IsArray(Fragment(cfg, HandSlot))) =>
    LET asList == Items(Arr(<<Fragment(cfg, HandSlot)>>))
        v == ValidateItem(HandSlot, asList[1], 0)
    IN /\ Len(asList) = 1
       /\ cur.i = 0
       /\ (failure.kind = "validation") <=> ~v.ok
       /\ ~v.ok =>
            /\ failure.msg = v.msg
            /\ v.dirEnsured = (Event("mkdir", HandSlot, 0) \in Range(events))
       /\ (v.ok /\ pc = "await") =>
            /\ pending = v.call
            /\ Event("mkdir", HandSlot, 0) \in Range(events)
            /\ ensureDirFor({}, v.path) \subseteq dirs

\* a bare object was accepted and its generator is running
C5_Witness ==
  /\ pc = "await"
  /\ ~IsArray(Fragment(cfg, HandSlot))
  /\ HandSlot = 15

\* C6: a plan whose parsed root is not a mapping (a scalar, null or a list)
\* fails at once: no directory is created, no item is attempted, and the run
\* does not end with exit code 0.
C6_NonMappingRootFails ==
  (doc # Unreadable /\ doc.t # "object") =>
    /\ dirs = {}
    /\ events = <<>>
    /\ exitCode # 0

\* C7: a non-zero exit code comes with a diagnostic on the error stream.
C7_DiagnosticBeforeExit ==
  exitCode \notin {Running, 0} => Len(stderr) > 0

KindLabel(s) ==
  << "json", "pdf", "txt", "docx", "pptx", "xlsx", "csv", "images.jpg", "images.png",
     "images.custom", "audio.wav", "audio.mp3", "video", "archives.zip", "archives.rar" >>[s]

\* the message starts with <kind>[<index>].<field>
HasLocation(f) ==
  /\ Len(f.msg) >= 6
  /\ f.msg[1] = KindLabel(f.s)
  /\ f.msg[2] = "["
  /\ f.msg[3] = ToString(f.i)
  /\ f.msg[4] = "]"
  /\ f.msg[5] = "."

\* C8: the error of every failed item carries the location <kind>[<index>].<field>.
C8_ErrorsCarryLocation ==
  failure.kind \in ItemFailures => HasLocation(failure)

CsvOptions == LastCall.call.args[1]

LastIsCsv == Len(calls) > 0 /\ LastCall.call.fn = "generateCSV"

\* C9: a CSV item with both rows and data writes exactly the records of data,
\* prints the notice that rows is ignored, and fails for no reason of its own.
C9_DataWins ==
  (LastIsCsv /\ Get(CsvOptions, "rows") # Undef /\ Get(CsvOptions, "data") # Undef) =>
    /\ \E j \in 1..Len(stdout) : stdout[j] = InfoLine(RowsIgnoredNotice(LastCall.i))
    /\ LastEvent.op = "done" =>
         files[CallPath(LastCall.call)].body = Get(CsvOptions, "data").a
    /\ LastEvent.op = "fail" => failure.msg \in {CsvKeyError, CollaboratorError}

KeySet(record) == Range(ObjectKeys(record))

SameKeySets(data) == \A j \in 1..Len(data.a) : KeySet(data.a[j]) = KeySet(data.a[1])

\* C10: explicit CSV data reaches the writer iff every record has the key set
\* of the first record, whatever the order of the keys, and then the records
\* are written as given, in input order.
C10_CsvKeySets ==
  (LastIsCsv /\ Get(CsvOptions, "data") # Undef) =>
    /\ LastEvent.op = "done" =>
         /\ SameKeySets(Get(CsvOptions, "data"))
         /\ Len(Get(CsvOptions, "data").a) > 0 =>
              files[CallPath(LastCall.call)].body = Get(CsvOptions, "data").a
    /\ (LastEvent.op = "fail" /\ ~SameKeySets(Get(CsvOptions, "data"))) =>
         failure.msg = CsvKeyError
    /\ (pc = "await" /\ SameKeySets(Get(CsvOptions, "data"))) =>
         \A r \in Settlements(pending) : ~r.ok => r.msg # CsvKeyError
    /\ (pc = "await" /\ ~SameKeySets(Get(CsvOptions, "data"))) =>
         \A r \in Settlements(pending) : ~r.ok /\ r.msg = CsvKeyError

\* records with the same keys in another order were written, in input order
C10_Witness ==
  /\ LastIsCsv
  /\ LastEvent.op = "done"
  /\ Get(CsvOptions, "data") = Arr(<<O2("a", Num(1), "b", Num(2)), O2("b", Num(3), "a", Num(4))>>)
  /\ files[CallPath(LastCall.call)].body[1] = O2("a", Num(1), "b", Num(2))

LastDone == Len(calls) > 0 /\ LastEvent.op = "done"

LastWritten == files[CallPath(LastCall.call)].body

\* index of the first line separator at or after j, 0 when there is none
RECURSIVE FirstBreak(_, _)
FirstBreak(text, j) ==
  IF j > Len(text) THEN 0 ELSE IF text[j] = "\n\n" THEN j ELSE FirstBreak(text, j + 1)

\* the lines of a text file, as strings
RECURSIVE SplitLines(_)
SplitLines(text) ==
  LET j == FirstBreak(text, 1)
  IN IF j = 0 THEN <<Str(text)>>
     ELSE <<Str(SubSeq(text, 1, j - 1))>> \o SplitLines(SubSeq(text, j + 1, Len(text)))

HasTexts(o) == Get(o, "texts") # Undef /\ Len(Get(o, "texts").a) >= 1

\* seq has n elements and its element at position i (from 0) is texts[i mod L]
CyclesOver(seq, n, texts) ==
  /\ Len(seq) = n
  /\ \A i \in 0..(n - 1) : seq[i + 1] = texts.a[(i % Len(texts.a)) + 1]

\* C11: with explicit texts of length L >= 1 and a requested count N, the
\* content written for a txt, pdf or docx item, for every pptx slide and for
\* every xlsx sheet (after its header row) has exactly N elements, and the
\* element at position i (from 0) is texts[i mod L], for N above and below L.
C11_CyclicTexts ==
  LastDone =>
    LET o == LastCall.call.args[1]
        fn == LastCall.call.fn
    IN /\ (fn \in {"generatePDF", "generateDOCX"} /\ HasTexts(o)) =>
            CyclesOver(LastWritten, Count(Get(o, "lines")), Get(o, "texts"))
       /\ (fn = "generateTXT" /\ HasTexts(o)) =>
            CyclesOver(SplitLines(LastWritten), Count(Get(o, "lines")), Get(o, "texts"))
       /\ fn = "generatePPTX" =>
            \A j \in 1..Len(Entries(Get(o, "slides"))) :
              LET slide == Entries(Get(o, "slides"))[j][2]
              IN HasTexts(slide) =>
                   CyclesOver(LastWritten[j].content, Count(Get(slide, "lines")), Get(slide, "texts"))
       /\ fn = "generateXLSX" =>
            \A j \in 1..Len(Entries(Get(o, "sheets"))) :
              LET sheet == Entries(Get(o, "sheets"))[j][2]
              IN HasTexts(sheet) =>
                   /\ Head(LastWritten[j].rows) = HeaderRow
                   /\ CyclesOver(Tail(LastWritten[j].rows), Count(Get(sheet, "rows")),
                                 Get(sheet, "texts"))

\* a deck was written with one slide of three lines over two texts (x, y, x)
\* and one slide of a single line over the same two texts (x)
C11_Witness ==
  /\ LastDone
  /\ LastCall.call.fn = "generatePPTX"
  /\ \E j \in 1..Len(LastWritten) : LastWritten[j].content = <<S("x"), S("y"), S("x")>>
  /\ \E j \in 1..Len(LastWritten) :
       /\ LastWritten[j].content = <<S("x")>>
       /\ HasTexts(Entries(Get(LastCall.call.args[1], "slides"))[j][2])

VideoItem == ItemsAt(cfg, 13)[cur.i + 1]

VideoInFlight == pc = "await" /\ pending.fn = "generateMP4"

VideoDone == LastDone /\ LastCall.call.fn = "generateMP4"

\* the item of the last video call, as the plan lists it
LastVideoItem == ItemsAt(cfg, 13)[LastCall.i + 1]

AllDefaults ==
  Obj(<< <<"duration", Num(1)>>, <<"resolution", Str(<<"1280", "x", "720">>)>>,
         <<"fps", Num(30)>>, <<"background", S("black")>>, <<"crf", Num(23)>>,
         <<"pixelFormat", S("yuv420p")>>, <<"preset", S("medium")>>,
         <<"silentAudio", Bool(TRUE)>> >>)

\* every option is the plan's value where the item gives one, else its default
DefaultsFill(item, used) ==
  \A j \in 1..Len(VideoOptionNames) :
    LET name == VideoOptionNames[j]
    IN Get(used, name) = IF HasKey(item, name) THEN Get(item, name) ELSE Get(AllDefaults, name)

\* C12: the options a video is encoded with are, for an item that gives only
\* a path, duration 1, resolution 1280x720, fps 30, background black, crf 23,
\* pixelFormat yuv420p, preset medium, silentAudio true; for an item that
\* gives some options, exactly the absent ones take their default.  The
\* options are resolved before the encoder runs, so every way the call can
\* succeed uses them.
C12_VideoDefaults ==
  /\ VideoInFlight =>
       \A r \in Settlements(pending) :
         r.ok => /\ DefaultsFill(VideoItem, r.content.body)
                 /\ ObjectKeys(VideoItem) = <<"path">> => r.content.body = AllDefaults
  /\ VideoDone =>
       /\ DefaultsFill(LastVideoItem, LastWritten)
       /\ ObjectKeys(LastVideoItem) = <<"path">> => LastWritten = AllDefaults

\* a video was encoded from an item that gives silentAudio false, crf 0.5 and
\* preset slow and nothing else: those three as given, the other five by default
C12_Witness ==
  /\ VideoDone
  /\ ObjectKeys(LastVideoItem) = <<"path", "silentAudio", "crf", "preset">>
  /\ Get(LastWritten, "silentAudio") = Bool(FALSE)
  /\ Get(LastWritten, "crf") = NumH(1)
  /\ Get(LastWritten, "fps") = Num(30)
  /\ Get(LastWritten, "pixelFormat") = S("yuv420p")

CrfInRange(v) == IsFinite(v) /\ v.h >= 0 /\ v.h <= 2 * CrfMax

\* the item in hand was rejected for the named field
RejectedFor(field) ==
  /\ failure.kind = "validation"
  /\ Len(failure.msg) >= 6
  /\ failure.msg[6] = field

\* C13: a video item's crf is accepted iff it is a finite number with
\* 0 <= crf <= 51: an item whose crf is in the range, bounds 0 and 51
\* included, is not rejected for its crf, and one whose crf is outside the
\* range is rejected.
C13_CrfRange ==
  (InHand /\ HandSlot = 13 /\ VideoItem.t = "object" /\ HasKey(VideoItem, "crf")) =>
    /\ CrfInRange(Get(VideoItem, "crf")) => ~RejectedFor("crf")
    /\ ~CrfInRange(Get(VideoItem, "crf")) => failure.kind = "validation"

HandItem == ItemsAt(cfg, HandSlot)[cur.i + 1]

EnumOutside(v, allowed) == ~(v.t = "string" /\ Includes(allowed, v.s))

\* the message names every allowed value
ListsAllowed(msg, allowed) ==
  \A j \in 1..Len(allowed) : \E k \in 1..Len(msg) : msg[k] = allowed[j][1]

EnumValues(field) == IF field = "pixelFormat" THEN PixelFormats ELSE Presets

\* C14: a supplied pixelFormat, preset or output.format outside its declared
\* set (any type, other letter case included) causes the item to be rejected,
\* and the rejection for that field names every allowed value.
C14_EnumRejections ==
  /\ (InHand /\ HandSlot = 13 /\ HandItem.t = "object") =>
       \A field \in {"pixelFormat", "preset"} :
         (HasKey(HandItem, field) /\ EnumOutside(Get(HandItem, field), EnumValues(field))) =>
           /\ failure.kind = "validation"
           /\ RejectedFor(field) => ListsAllowed(failure.msg, EnumValues(field))
  /\ (InHand /\ HandSlot = 10 /\ HandItem.t = "object"
        /\ Get(HandItem, "output").t = "object" /\ HasKey(Get(HandItem, "output"), "format")
        /\ EnumOutside(Get(Get(HandItem, "output"), "format"), ImageFormats)) =>
       /\ failure.kind = "validation"
       /\ (RejectedFor("output") /\ Len(failure.msg) >= 8 /\ failure.msg[8] = "format") =>
            ListsAllowed(failure.msg, ImageFormats)

(* ---------------------------------------------------------------------- *)
(* The positive-integer validators on their own: any value, any label      *)
(* ---------------------------------------------------------------------- *)
PositiveIntProbes ==
  {Num(0), Num(-1), NumH(3), NaN, Infinity, S("5"), Num(1), Num(1000000), Num(2), NumH(1),
   NumH(-3), Undef, Null, Bool(TRUE), S("1"), Str(<<>>), Arr(<<Num(1)>>), Obj(<<>>)}

ProbeLabels ==
  {Where("pdf", 0, "lines"), Where("txt", 1, "lines"), Where("csv", 0, "rows"),
   <<"lines">>, <<"fontSize">>, <<"rows">>, <<"create.width">>}

\* no plan is run
NoRun(label) ==
  /\ argGiven = FALSE
  /\ fileExists = FALSE
  /\ doc = Unreadable
  /\ pc = label
  /\ cfg = Undef
  /\ cur = [k |-> 1, i |-> 0]
  /\ pending = NoCall
  /\ files = <<>>
  /\ calls = <<>>
  /\ events = <<>>
  /\ failure = NoFailure
  /\ stdout = <<>>
  /\ stderr = <<>>
  /\ exitCode = Running

InitValidators ==
  /\ probe \in {[applied |-> FALSE, v |-> v, where |-> w] : v \in PositiveIntProbes, w \in ProbeLabels}
  /\ NoRun("validators")
  /\ srv = NoServer
  /\ dirs = {}
  /\ procs = <<>>

\* both copies of expectPositiveInt are applied to the value
ApplyPositiveInt ==
  /\ pc = "validators"
  /\ ~probe.applied
  /\ probe' = [applied |-> TRUE, v |-> probe.v, where |-> probe.where,
               batch |-> expectPositiveInt(probe.v, probe.where),
               server |-> srvExpectPositiveInt(probe.v, probe.where)]
  /\ UNCHANGED <<run, procs, srv>>

NextValidators == ApplyPositiveInt

IsPositiveInteger(v) == v.t = "number" /\ v.k = "finite" /\ v.h > 0 /\ v.h % 2 = 0

\* C15: the positive-integer validator rejects 0, -1, 1.5, NaN, Infinity and
\* the string "5", accepts 1 and 1000000, accepts a value iff it is a finite
\* integer number above zero, and the batch copy and the server copy agree:
\* same verdict, same value returned, same message.
C15_PositiveInt ==
  probe.applied =>
    /\ probe.batch.ok <=> IsPositiveInteger(probe.v)
    /\ probe.server.ok <=> probe.batch.ok
    /\ probe.v \in {Num(0), Num(-1), NumH(3), NaN, Infinity, S("5")} =>
         ~probe.batch.ok /\ ~probe.server.ok
    /\ probe.v \in {Num(1), Num(1000000)} => probe.batch.ok /\ probe.server.ok
    /\ probe.batch.ok => probe.batch.v = probe.v /\ probe.server.v = probe.v
    /\ ~probe.batch.ok =>
         /\ probe.batch.msg = probe.where \o <<" must be a positive integer">>
         /\ probe.server.msg = probe.batch.msg
         /\ probe.server.status = 400

\* 1.5 was handed to both copies and both rejected it
C15_Witness ==
  /\ probe.applied
  /\ probe.v = NumH(3)
  /\ ~probe.batch.ok
  /\ ~probe.server.ok

(* ---------------------------------------------------------------------- *)
(* ensureDirFor called by several processes on one file system.            *)
(* mkdirSync(dir, {recursive: true}) is a loop of mkdir system calls over  *)
(* a stack of directories: EEXIST on a directory counts as success, ENOENT *)
(* pushes the parent and retries.  The tree is writable and holds only     *)
(* directories.                                                            *)
(* ---------------------------------------------------------------------- *)
OutputPaths ==
  {<<"out", "/", "sub", "/", "f.txt">>, <<"out", "/", "sub", "/", "g.pdf">>,
   <<"out", "/", "h.json">>, <<"out", "/", "sub", "/", "deep", "/", "k.csv">>, <<"x.txt">>}

IdleProc == [st |-> "idle", path |-> <<>>, stack |-> <<>>, raced |-> FALSE]

InitMkdir ==
  /\ dirs \in {{}, {<<"out">>}}
  /\ procs = [p \in 1..MaxProcs |-> IdleProc]
  /\ probe = NoProbe
  /\ NoRun("mkdir")
  /\ srv = NoServer

DirExists(d) == d \in {<<".">>, <<"/">>} \/ d \in dirs

Pop(stack) == SubSeq(stack, 1, Len(stack) - 1)

Top(stack) == stack[Len(stack)]

\* variant: mkdirSync without `recursive`, EEXIST is an error
AfterExistsStrict(proc) == [proc EXCEPT !.st = "failed"]

\* EEXIST and the entry is a directory: that directory is done
AfterExists(proc) ==
  [proc EXCEPT !.stack = Pop(proc.stack),
               !.st = IF Len(proc.stack) = 1 THEN "done" ELSE "mkdir"]

\* ensureDirFor(filePath) is entered: mkdirSync starts from path.dirname(filePath)
CallEnsureDirFor(p) ==
  /\ pc = "mkdir"
  /\ procs[p].st \in {"idle", "done"}
  /\ \E path \in OutputPaths :
       procs' = [procs EXCEPT ![p] = [st |-> "mkdir", path |-> path,
                                      stack |-> <<Dirname(path)>>, raced |-> FALSE]]
  /\ UNCHANGED <<run, probe, srv>>

\* one mkdir system call on the directory on top of the stack
MkdirCall(p) ==
  /\ pc = "mkdir"
  /\ procs[p].st = "mkdir"
  /\ LET d == Top(procs[p].stack)
     IN IF DirExists(d)
        THEN /\ procs' = [procs EXCEPT ![p].st = "stat",
                                       ![p].raced = @ \/ Len(procs[p].stack) >= 2]
             /\ UNCHANGED dirs
        ELSE IF ~DirExists(Dirname(d))
        THEN /\ procs' = [procs EXCEPT ![p].stack = Append(@, Dirname(d))]
             /\ UNCHANGED dirs
        ELSE /\ dirs' = dirs \cup {d}
             /\ procs' = [procs EXCEPT ![p].stack = Pop(@),
                                       ![p].st = IF Len(procs[p].stack) = 1 THEN "done" ELSE "mkdir"]
  /\ UNCHANGED <<runButDirs, probe, srv>>

\* the stat system call that follows an EEXIST
StatCall(p) ==
  /\ pc = "mkdir"
  /\ procs[p].st = "stat"
  /\ procs' = [procs EXCEPT ![p] = IF DirExists(Top(procs[p].stack))
                                   THEN AfterExists(procs[p])
                                   ELSE [procs[p] EXCEPT !.st = "failed"]]
  /\ UNCHANGED <<run, probe, srv>>

NextMkdir == \E p \in 1..MaxProcs : CallEnsureDirFor(p) \/ MkdirCall(p) \/ StatCall(p)

\* C16: whatever the order and interleaving of ensureDirFor calls on the same
\* or overlapping paths, no call fails, and when a call has returned every
\* ancestor directory of its path exists.
C16_RaceSafeMkdir ==
  \A p \in DOMAIN procs :
    /\ procs[p].st # "failed"
    /\ procs[p].st = "done" => DirChain(Dirname(procs[p].path)) \subseteq dirs

\* two calls on paths under the same directory have both returned, and one of
\* them found a directory made by the other between two of its own mkdir calls
C16_Witness ==
  \E p, q \in DOMAIN procs :
    /\ p # q
    /\ procs[p].st = "done" /\ procs[q].st = "done"
    /\ procs[p].raced
    /\ Dirname(procs[p].path) = <<"out", "/", "sub">>
    /\ <<"out", "/", "sub">> \in DirChain(Dirname(procs[q].path))

Done(a) == Event("done", calls[a].s, calls[a].i) \in Range(events)

\* what the call leaves at its path when it succeeds
Leaves(call) == (CHOOSE r \in Settlements(call) : r.ok).content

\* the generator rejects the call for its own reasons (CSV records with other keys)
RejectsItself(call) == call.fn = "generateCSV" /\ ~CsvRecords(call.args[1]).ok

\* the writes of the a-th generator call so far: those of its settlement
Wrote(a) ==
  IF Done(a) THEN Writes(calls[a].call, CHOOSE r \in Settlements(calls[a].call) : r.ok)
  ELSE IF a = Len(calls) /\ failure.kind = "generator"
  THEN Writes(calls[a].call, Fail(failure.msg))
  ELSE <<>>

\* C17: items that target the same output path are each validated, invoked
\* and able to succeed like any other item, and once generated the content at
\* the path is that of the item latest in processing order (json then pdf on
\* one path leaves the PDF), whatever the order of the keys in the plan.
C17_LastWriterWins ==
  /\ \A a \in 1..Len(calls) :
       (Done(a) /\ ~\E b \in (a + 1)..Len(calls) :
                     \E j \in 1..Len(Wrote(b)) : Wrote(b)[j][1] = CallPath(calls[a].call)) =>
         files[CallPath(calls[a].call)] = Leaves(calls[a].call)
  /\ (pc = "await" /\ CallPath(pending) \in DOMAIN files) =>
       /\ pending = ValidateItem(HandSlot, HandItem, cur.i).call
       /\ ~RejectsItself(pending) => \E r \in Settlements(pending) : r.ok

\* the plan lists pdf before json, both on out/sub/f.json; both were
\* generated and the file holds the PDF
C17_Witness ==
  /\ cfg.t = "object"
  /\ ObjectKeys(cfg) = <<"pdf", "json">>
  /\ Len(calls) = 2
  /\ Done(1) /\ Done(2)
  /\ CallPath(calls[1].call) = CallPath(calls[2].call)
  /\ files[Deep(1).s].fn = "generatePDF"
  /\ files[Deep(1).s].body = <<FakeSentence>>

\* the invocations in the log that have not settled
InFlight ==
  {j \in 1..Len(events) :
     /\ events[j].op = "invoke"
     /\ ~\E k \in (j + 1)..Len(events) :
           events[k].op \in {"done", "fail"} /\ events[k].s = events[j].s /\ events[k].i = events[j].i}

\* C18: at most one generator invocation is in flight; the step that follows
\* an invocation in the run is its own settlement, so the validation, the
\* directory creation and the generator call of the next item come after it.
C18_OneInFlight ==
  /\ Cardinality(InFlight) <= 1
  /\ (InFlight # {}) <=> (pc = "await" /\ pending # NoCall)
  /\ \A j \in 1..(Len(events) - 1) :
       events[j].op = "invoke" =>
         /\ events[j + 1].op \in {"done", "fail"}
         /\ events[j + 1].s = events[j].s
         /\ events[j + 1].i = events[j].i

\* the second generator call of a run is in flight and the first has settled
C18_Witness ==
  /\ pc = "await"
  /\ Len(calls) = 2
  /\ Done(1)
  /\ Cardinality(InFlight) = 1

FinalReport == stdout[Len(stdout)]

\* C19: a run that ends with every section generated closes with a report
\* that states the number of items generated, which is the number of generator
\* invocations that succeeded.
C19_FinalCount ==
  exitCode = 0 =>
    /\ Len(stdout) > 0
    /\ \E j \in 1..Len(FinalReport) : FinalReport[j] = ToString(Generated)

HasUnknownKey(c) == c.t = "object" /\ \E j \in 1..Len(c.e) : c.e[j][1] \notin KnownKeys

\* the plan without its unrecognised keys
Strip(c) == Obj(SelectSeq(c.e, LAMBDA en : en[1] \in KnownKeys))

\* the generator invocations of a plan when no collaborator fails: every item
\* in processing order up to the first one that is rejected
RECURSIVE PlannedFrom(_, _, _)
PlannedFrom(c, k, i) ==
  LET pos == NextPos(c, k, i)
  IN IF pos.k > NSlots THEN <<>>
     ELSE LET s == ProcessingOrder(c)[pos.k]
              v == ValidateItem(s, ItemsAt(c, s)[pos.i + 1], pos.i)
          IN IF ~v.ok THEN <<>>
             ELSE <<[s |-> s, i |-> pos.i, call |-> v.call]>> \o PlannedFrom(c, pos.k, pos.i + 1)

IsPrefix(a, b) == Len(a) <= Len(b) /\ SubSeq(b, 1, Len(a)) = a

RECURSIVE DirsOf(_)
DirsOf(cs) ==
  IF cs = <<>> THEN {} ELSE ensureDirFor(DirsOf(Tail(cs)), CallPath(Head(cs).call))

\* C20: a plan with an unrecognised top-level key runs as the plan without
\* it: the key is not rejected, the generator invocations are those of the
\* plan without the key, in the same order, the directories are the same, and
\* the run ends with the same status (0 after the last planned invocation, 1
\* at the item that the plan without the key fails at).
C20_UnknownKeysIgnored ==
  HasUnknownKey(doc) =>
    LET base == Strip(doc)
        planned == PlannedFrom(base, 1, 0)
    IN /\ failure.kind # "load"
       /\ IsPrefix(calls, planned)
       /\ pc \in {"handlers", "await", "exited"} /\ failure.kind # "outputDir" =>
            dirs \subseteq (IF WantsOutputDir(base) THEN DirChain(Get(base, "outputDir").s) ELSE {})
                              \cup DirsOf(planned)
       /\ exitCode = 0 =>
            /\ calls = planned
            /\ NextPos(base, cur.k, cur.i).k > NSlots
       /\ failure.kind \in ItemFailures =>
            /\ cur.i < Len(ItemsAt(base, HandSlot))
            /\ ItemsAt(base, HandSlot)[cur.i + 1] = HandItem
            /\ failure.kind = "validation" => Len(calls) = Len(planned)

\* a plan with an unrecognised key listed first ran to the end: its one
\* json item was generated and the run ended with exit code 0
C20_Witness ==
  /\ HasUnknownKey(doc)
  /\ ObjectKeys(doc)[1] = "extra"
  /\ exitCode = 0
  /\ Len(calls) = 1
  /\ Done(1)

\* the item in hand is a CSV item whose explicit records do not all have the
\* keys of the first record, and every field check of handleCSV passes on it
MismatchedCsvInHand ==
  /\ InHand
  /\ HandSlot = 7
  /\ HandItem.t = "object"
  /\ ValidateCSV(HandItem, cur.i).ok
  /\ Get(HandItem, "data") # Undef
  /\ ~SameKeySets(Get(HandItem, "data"))

\* C24: a CSV item whose explicit records have mismatched key sets is
\* rejected before any side effect: when it has been rejected, the directory
\* of its path has not been created for it, its generator has not been
\* invoked and nothing has been written at its path.
C24_CsvRejectedEarly ==
  (MismatchedCsvInHand /\ failure.kind \in ItemFailures /\ failure.msg = CsvKeyError) =>
    /\ failure.kind = "validation"
    /\ Event("mkdir", 7, cur.i) \notin Range(events)
    /\ Event("invoke", 7, cur.i) \notin Range(events)
    /\ Dirname(Get(HandItem, "path").s) = <<"out", "/", "sub">> => <<"out", "/", "sub">> \notin dirs

\* C25: a request that passed its handler's validation is not rejected by an
\* input check of the generator it is handed to.
C25_GeneratorTrustsRequest ==
  /\ pc = "await" => OwnChecks(pending).ok
  /\ failure.kind = "generator" => failure.msg \in {CollaboratorError, EncoderError}

\* C29: an audio.mp3 item creates or modifies no file but its own output
\* path (no output of an earlier item is overwritten, no intermediate file is
\* left behind), and its intermediate WAV path differs from its output path,
\* with or without ".mp3" in the path.
C29_Mp3OnlyItsOutput ==
  [][(pc = "await" /\ pending.fn = "generateMP3") =>
       /\ \A p \in DOMAIN files' :
            p # CallPath(pending) => p \in DOMAIN files /\ files'[p] = files[p]
       /\ WavPath(CallPath(pending)) # CallPath(pending)]_vars

\* the generator invocations made for item i of slot s
InvocationsOf(s, i) == {a \in 1..Len(calls) : calls[a].s = s /\ calls[a].i = i}

\* the items the handlers have gone through before the item in hand
Preceding ==
  {<<s, i>> \in (1..NSlots) \X (0..MaxItems) :
     /\ i < Len(ItemsAt(cfg, s))
     /\ s < HandSlot \/ (s = HandSlot /\ i < cur.i)}

GeneratedItems == {<<events[j].s, events[j].i>> : j \in {k \in 1..Len(events) : events[k].op = "done"}}

\* C27: no item's generator is invoked twice; a run that ends with exit code
\* 0 has invoked the generator once for every item of every present section;
\* a run that ends at a failing item has generated exactly the items before
\* it in processing order.
C27_OncePerItem ==
  /\ \A a \in 1..Len(calls) : Cardinality(InvocationsOf(calls[a].s, calls[a].i)) = 1
  /\ exitCode = 0 =>
       /\ Len(calls) = Listed
       /\ \A a \in 1..Len(calls) : Done(a)
  /\ failure.kind \in ItemFailures => GeneratedItems = Preceding

\* the request objects listed under the sections of a mapping, or of the
\* mappings a list root holds
RECURSIVE ListedInAll(_, _)
ListedInAll(roots, j) ==
  IF j > Len(roots) THEN 0 ELSE ListedFrom(roots[j], 1) + ListedInAll(roots, j + 1)

ListedAnywhere ==
  IF doc = Unreadable THEN 0
  ELSE IF IsArray(doc) THEN ListedInAll(doc.a, 1)
  ELSE ListedFrom(doc, 1)

\* C28: a run does not end with exit code 0 after leaving out a request
\* object listed under a recognised section: each one was handed to its
\* generator, or the run failed.
C28_NothingIgnored ==
  (pc = "exited" /\ Len(calls) < ListedAnywhere) => exitCode # 0

Idle == pc = "main"

RunningSection == pc \in {"loadYaml", "outputDir", "handlers", "await"}

Succeeded == pc = "exited" /\ exitCode = 0 /\ failure = NoFailure

Failed == pc = "exited" /\ exitCode = 1 /\ failure # NoFailure

\* C26: when every generator call settles, a run started on an existing plan
\* file ends: it reaches Succeeded (exit code 0) or Failed (exit code 1),
\* never both, stays there, and before that it is Idle or Running only.
C26_Terminates ==
  /\ (argGiven /\ fileExists) ~> (Succeeded \/ Failed)
  /\ []((argGiven /\ fileExists) => (Idle \/ RunningSection \/ Succeeded \/ Failed))
  /\ []((Idle \/ RunningSection) => exitCode = Running /\ failure = NoFailure)
  /\ [][(Succeeded => Succeeded') /\ (Failed => Failed')]_vars

\* a run of two generator calls has ended Succeeded
C26_Witness ==
  /\ Succeeded
  /\ Len(calls) = 2
  /\ Done(1) /\ Done(2)

(* ---------------------------------------------------------------------- *)
(* The HTTP service (server.ts): one POST route per kind.  A route checks  *)
(* the body, names a temporary file, awaits the generator, sends the file  *)
(* and unlinks it in sendFile's callback; every error goes to the central  *)
(* error handler.  Routes are numbered like the slots of the batch run.    *)
(* ---------------------------------------------------------------------- *)
srvExpectString(v, where) ==
  IF v.t # "string" \/ Trim(v.s) = <<>>
  THEN badRequest(where \o <<" must be a non-empty string">>)
  ELSE Ok(v)

srvExpectPositiveNumber(v, where) ==
  IF ~IsFinite(v) \/ v.h <= 0
  THEN badRequest(where \o <<" must be a positive number">>)
  ELSE Ok(v)

srvExpectBoolean(v, where) ==
  IF v.t # "boolean" THEN badRequest(where \o <<" must be a boolean">>) ELSE Ok(v)

\* cond ? value : (() => { throw badRequest(m); })()
Require(cond, m) == IF cond THEN Pass ELSE badRequest(m)

SrvTextsCheck(texts, where) ==
  Optional(texts, Require(IsStringArray(texts), where \o <<" must be an array of strings">>))

\* the loop over Object.entries(slides) of POST /pptx
SrvSlideChecks(en) ==
  LET w == <<"slides", "[\"", en[1], "\"]">>
      t == Get(en[2], "texts")
  IN << Require(IsObjectValue(en[2]), w \o <<" must be an object">>),
        srvExpectPositiveInt(Get(en[2], "lines"), w \o <<".", "lines">>),
        Optional(t, Require(IsStringArray(t), w \o <<".", "texts", " must be an array of strings">>)) >>

\* the loop over Object.entries(sheets) of POST /xlsx
SrvSheetChecks(en) ==
  LET w == <<"sheets", "[\"", en[1], "\"]">>
      texts == Get(en[2], "texts")
  IN << Require(IsObjectValue(en[2]), w \o <<" must be an object">>),
        srvExpectPositiveInt(Get(en[2], "rows"), w \o <<".", "rows">>),
        Optional(texts, Require(IsArray(texts) /\ Every(texts.a, IsArray),
                                w \o <<".", "texts", " must be string[][]">>)) >>

RECURSIVE SrvEntryChecks(_, _)
SrvEntryChecks(ens, kind) ==
  IF ens = <<>> THEN <<>>
  ELSE (IF kind = "pptx" THEN SrvSlideChecks(Head(ens)) ELSE SrvSheetChecks(Head(ens)))
       \o SrvEntryChecks(Tail(ens), kind)

\* for (const f of files) if (!fs.existsSync(f)) throw badRequest(`file not found: ${f}`)
RECURSIVE ExistChecks(_, _)
ExistChecks(fileList, disk) ==
  IF fileList = <<>> THEN <<>>
  ELSE << Require(Head(fileList).t = "string" /\ Head(fileList).s \in disk,
                  <<"file not found: ">> \o (IF Head(fileList).t = "string" THEN Head(fileList).s ELSE <<>>)) >>
       \o ExistChecks(Tail(fileList), disk)

SrvFilesChecks(body, disk) ==
  << Require(IsStringArray(Get(body, "files")), <<"files", " must be an array of file paths">>) >>
  \o (IF IsStringArray(Get(body, "files")) THEN ExistChecks(Get(body, "files").a, disk) ELSE <<>>)

SrvVideoChecks(body) ==
  LET duration == Get(body, "duration")
      resolution == Get(body, "resolution")
      fps == Get(body, "fps")
      background == Get(body, "background")
      crf == Get(body, "crf")
      pixelFormat == Get(body, "pixelFormat")
      preset == Get(body, "preset")
      silentAudio == Get(body, "silentAudio")
  IN << Optional(duration, srvExpectPositiveNumber(duration, <<"duration">>)),
        Optional(resolution, srvExpectString(resolution, <<"resolution">>)),
        Optional(resolution, Require(resolution.t = "string" /\ IsResolution(resolution.s),
                                     <<"resolution", " must be \"WIDTHxHEIGHT\"">>)),
        Optional(fps, srvExpectPositiveNumber(fps, <<"fps">>)),
        Optional(background, srvExpectString(background, <<"background">>)),
        Optional(crf, srvExpectPositiveNumber(crf, <<"crf">>)),
        Optional(crf, Require(IsFinite(crf) /\ ~(crf.h < 0 \/ crf.h > 2 * CrfMax),
                              <<"crf", " must be within [0,51]">>)),
        Optional(pixelFormat, srvExpectString(pixelFormat, <<"pixelFormat">>)),
        Optional(pixelFormat, Require(pixelFormat.t = "string" /\ Includes(PixelFormats, pixelFormat.s),
                                      <<"pixelFormat", " must be one of ">> \o Join(PixelFormats, ", "))),
        Optional(preset, srvExpectString(preset, <<"preset">>)),
        Optional(preset, Require(preset.t = "string" /\ Includes(Presets, preset.s),
                                 <<"preset", " must be one of ">> \o Join(Presets, ", "))),
        Optional(silentAudio, srvExpectBoolean(silentAudio, <<"silentAudio">>)) >>

SrvImageChecks(body) ==
  LET create == Get(body, "create")
      output == Get(body, "output")
      format == Get(output, "format")
  IN << Require(IsObjectValue(create),
                <<"create", " must be an object { width, height, channels?, background? }">>),
        Require(IsObjectValue(output), <<"output", " must be an object { format, options? }">>),
        srvExpectPositiveInt(Get(create, "width"), <<"create", ".", "width">>),
        srvExpectPositiveInt(Get(create, "height"), <<"create", ".", "height">>),
        Require(format.t = "string", <<"output", ".", "format", " must be a string">>),
        Require(format.t = "string" /\ Includes(ImageFormats, format.s),
                <<"output", ".", "format", " must be one of ">> \o Join(ImageFormats, ", ")) >>

\* the checks of route s on the body, in the order the route makes them;
\* disk: the paths fs.existsSync finds
SrvChecks(s, body, disk) ==
  CASE s = 1 ->
         << Optional(Get(body, "pretty"), srvExpectBoolean(Get(body, "pretty"), <<"pretty">>)),
            Require((Truthy(Get(body, "data")) /\ TypeOf(Get(body, "data")) = "object")
                      \/ Get(body, "data") = Undef,
                    <<"data", " must be an object">>) >>
    [] s = 2 ->
         << Optional(Get(body, "title"), srvExpectString(Get(body, "title"), <<"title">>)),
            Optional(Get(body, "fontSize"), srvExpectPositiveInt(Get(body, "fontSize"), <<"fontSize">>)),
            srvExpectPositiveInt(Get(body, "lines"), <<"lines">>),
            SrvTextsCheck(Get(body, "texts"), <<"texts">>) >>
    [] s \in {3, 4} ->
         << srvExpectPositiveInt(Get(body, "lines"), <<"lines">>),
            SrvTextsCheck(Get(body, "texts"), <<"texts">>) >>
    [] s = 5 ->
         << Require(IsObjectValue(Get(body, "slides")),
                    <<"slides", " must be an object of { [title]: { lines, texts? } }">>) >>
         \o SrvEntryChecks(Entries(Get(body, "slides")), "pptx")
    [] s = 6 ->
         << Require(IsObjectValue(Get(body, "sheets")),
                    <<"sheets", " must be an object of { [name]: { rows, texts? } }">>) >>
         \o SrvEntryChecks(Entries(Get(body, "sheets")), "xlsx")
    [] s = 7 ->
         << Optional(Get(body, "rows"), srvExpectPositiveInt(Get(body, "rows"), <<"rows">>)),
            Optional(Get(body, "data"),
                     Require(IsArray(Get(body, "data")) /\ Every(Get(body, "data").a, IsObjectValue),
                             <<"data", " must be an array of objects">>)) >>
    [] s \in {8, 9} -> <<>>
    [] s = 10 -> SrvImageChecks(body)
    [] s \in {11, 12} ->
         << srvExpectPositiveNumber(Get(body, "lengthSeconds"), <<"lengthSeconds">>) >>
    [] s = 13 -> SrvVideoChecks(body)
    [] s = 14 -> SrvFilesChecks(body, disk)
    [] OTHER ->
         SrvFilesChecks(body, disk)
         \o << Optional(Get(body, "rarPath"), srvExpectString(Get(body, "rarPath"), <<"rarPath">>)) >>

\* the extension passed to tmpFile, the generator, the content type and the
\* download name of each route
Routes ==
  << [ext |-> ".json", fn |-> "generateJSON", type |-> "application/json", name |-> "file.json"],
     [ext |-> ".pdf", fn |-> "generatePDF", type |-> "application/pdf", name |-> "file.pdf"],
     [ext |-> ".txt", fn |-> "generateTXT", type |-> "text/plain; charset=utf-8", name |-> "file.txt"],
     [ext |-> ".docx", fn |-> "generateDOCX",
      type |-> "application/vnd.openxmlformats-officedocument.wordprocessingml.document",
      name |-> "file.docx"],
     [ext |-> ".pptx", fn |-> "generatePPTX",
      type |-> "application/vnd.openxmlformats-officedocument.presentationml.presentation",
      name |-> "file.pptx"],
     [ext |-> ".xlsx", fn |-> "generateXLSX",
      type |-> "application/vnd.openxmlformats-officedocument.spreadsheetml.sheet",
      name |-> "file.xlsx"],
     [ext |-> ".csv", fn |-> "generateCSV", type |-> "text/csv; charset=utf-8", name |-> "file.csv"],
     [ext |-> ".jpg", fn |-> "generateJPG", type |-> "image/jpeg", name |-> "image.jpg"],
     [ext |-> ".png", fn |-> "generatePNG", type |-> "image/png", name |-> "image.png"],
     [ext |-> "", fn |-> "generateImage", type |-> "", name |-> ""],
     [ext |-> ".wav", fn |-> "generateWAV", type |-> "audio/wav", name |-> "audio.wav"],
     [ext |-> ".mp3", fn |-> "generateMP3", type |-> "audio/mpeg", name |-> "audio.mp3"],
     [ext |-> ".mp4", fn |-> "generateMP4", type |-> "video/mp4", name |-> "video.mp4"],
     [ext |-> ".zip", fn |-> "generateZIP", type |-> "application/zip", name |-> "files.zip"],
     [ext |-> ".rar", fn |-> "generateRAR", type |-> "application/vnd.rar", name |-> "files.rar"] >>

\* images/custom: ext = output.format === "jpeg" ? "jpg" : output.format
SrvExt(s, body) ==
  IF s # 10 THEN Routes[s].ext
  ELSE LET format == Get(Get(body, "output"), "format").s
       IN IF format = <<"jpeg">> THEN ".jpg" ELSE "." \o format[1]

TempDir == "<tempDir>"

\* variant: one fixed name per extension
tmpFileFixed(ext, id) == <<TempDir, "/", "file", ext>>

\* path.join(tempDir, `${crypto.randomUUID()}.${ext}`); id stands for the UUID
tmpFile(ext, id) == <<TempDir, "/", ToString(id), ext>>

\* the generator call of route s on a checked body, writing to out
SrvCall(s, body, out) ==
  LET o == Str(out)
      opts == Get(body, "opts")
  IN [fn |-> Routes[s].fn,
      args |->
        CASE s = 1 ->
               << Obj(<< <<"path", o>>,
                         <<"pretty", IF Get(body, "pretty") = Undef THEN Bool(TRUE)
                                     ELSE Get(body, "pretty")>>,
                         <<"data", Get(body, "data")>> >>) >>
          [] s = 2 ->
               << Obj(<< <<"path", o>>, <<"title", Get(body, "title")>>,
                         <<"fontSize", Get(body, "fontSize")>>, <<"lines", Get(body, "lines")>>,
                         <<"texts", Get(body, "texts")>> >>) >>
          [] s \in {3, 4} ->
               << Obj(<< <<"path", o>>, <<"lines", Get(body, "lines")>>,
                         <<"texts", Get(body, "texts")>> >>) >>
          [] s = 5 -> << Obj(<< <<"path", o>>, <<"slides", Get(body, "slides")>> >>) >>
          [] s = 6 -> << Obj(<< <<"path", o>>, <<"sheets", Get(body, "sheets")>> >>) >>
          [] s = 7 ->
               << Obj(<< <<"path", o>>, <<"rows", Get(body, "rows")>>,
                         <<"data", Get(body, "data")>> >>) >>
          [] s \in {8, 9} -> << o >>
          [] s = 10 -> << o, Get(body, "create"), Get(body, "output") >>
          [] s \in {11, 12} ->
               << o, Get(body, "lengthSeconds"), IF IsObjectValue(opts) THEN opts ELSE Undef >>
          [] s = 13 -> << o, Obj(SuppliedOptions(body, VideoOptionNames)) >>
          [] s = 14 -> << o, Get(body, "files") >>
          [] OTHER ->
               << o, Get(body, "files"),
                  IF Get(body, "rarPath") = Undef THEN S("rar") ELSE Get(body, "rarPath") >>]

NoResponse == [status |-> 0]

\* the central error handler: err.status when it is an integer, else 500
ErrorResponse(err) ==
  LET status == IF "status" \in DOMAIN err THEN err.status ELSE 500
  IN [status |-> status,
      json |-> [error |-> IF err.msg = <<>> THEN <<"Internal Server Error">> ELSE err.msg,
                status |-> status]]

\* res.type(...), Content-Disposition and the bytes res.sendFile streams
FileResponse(s, body, file, whole) ==
  [status |-> 200,
   type |-> IF s # 10 THEN Routes[s].type
            ELSE "image/" \o Get(Get(body, "output"), "format").s[1],
   name |-> IF s # 10 THEN Routes[s].name ELSE "image" \o SrvExt(s, body),
   bytes |-> file,
   complete |-> whole]

\* what fs.existsSync can find outside the temp dir
Disks == {{}, {<<"a.txt">>}}

\* a request body per Catalogue entry: the entry without "path"
BodyOf(item) ==
  Obj(SelectSeq(item.e, LAMBDA en : en[1] # "path"))

\* every route with every catalogue body
AllRequests ==
  UNION {{[s |-> s, body |-> BodyOf(Catalogue(s)[j])] :
            j \in {j \in 1..Len(Catalogue(s)) : Catalogue(s)[j].t = "object"}} : s \in 1..NSlots}

\* the requests sent while others are in flight
OverlappingRequests ==
  {[s |-> s, body |-> BodyOf(Catalogue(s)[1])] : s \in {1, 11, 12}}
  \cup {[s |-> 7, body |-> BodyOf(Catalogue(7)[10])]}

InitServer ==
  /\ srv \in {[reqs |-> <<>>, tmp |-> <<>>, disk |-> d, nextId |-> 1, mix |-> m] :
                d \in Disks, m \in {"alone", "overlapping"}}
  /\ probe = NoProbe
  /\ procs = <<>>
  /\ dirs = {}
  /\ NoRun("server")

SetReq(r, req) == [srv.reqs EXCEPT ![r] = req]

\* a route up to its await: the body is checked, the temp file is named and
\* the generator is called; a failed check goes to the error handler
Receive ==
  /\ pc = "server"
  /\ Len(srv.reqs) < (IF srv.mix = "alone" THEN 1 ELSE MaxRequests)
  /\ \E q \in (IF srv.mix = "alone" THEN AllRequests ELSE OverlappingRequests) :
       LET check == FirstFail(SrvChecks(q.s, q.body, srv.disk))
           out == tmpFile(SrvExt(q.s, q.body), srv.nextId)
       IN IF ~check.ok
          THEN srv' = [srv EXCEPT !.reqs = Append(@,
                         [s |-> q.s, body |-> q.body, st |-> "done", out |-> <<>>,
                          call |-> NoCall, handled |-> {}, err |-> check,
                          resp |-> ErrorResponse(check)])]
          ELSE srv' = [srv EXCEPT !.reqs = Append(@,
                         [s |-> q.s, body |-> q.body, st |-> "generating", out |-> out,
                          call |-> SrvCall(q.s, q.body, out), handled |-> {},
                          err |-> Pass, resp |-> NoResponse]),
                                  !.nextId = @ + 1]
  /\ UNCHANGED <<run, probe, procs>>

\* fs writes of request r: a new file is created by r, an existing one is
\* overwritten and keeps its creator
RECURSIVE TmpWrites(_, _, _)
TmpWrites(tmp, writes, r) ==
  IF writes = <<>> THEN tmp
  ELSE LET p == Head(writes)[1]
           f == [by |-> IF p \in DOMAIN tmp THEN tmp[p].by ELSE r,
                 from |-> r, data |-> Head(writes)[2]]
       IN TmpWrites([x \in DOMAIN tmp \cup {p} |-> IF x = p THEN f ELSE tmp[x]],
                    Tail(writes), r)

\* the creators of the temp files the generator of the call reads:
\* generateMP3 hands wavPath to ffmpeg
ReadsOf(call, tmp) ==
  IF call.fn = "generateMP3" /\ WavPath(CallPath(call)) \in DOMAIN tmp
  THEN {tmp[WavPath(CallPath(call))].by}
  ELSE {}

\* the awaited generator settles: on success the route goes on to
\* sendFileAndCleanup, a rejection goes to the error handler
GeneratorSettles(r) ==
  /\ pc = "server"
  /\ r \in 1..Len(srv.reqs)
  /\ srv.reqs[r].st = "generating"
  /\ \E x \in Settlements(srv.reqs[r].call) :
       LET req == srv.reqs[r]
           tmp == TmpWrites(srv.tmp, Writes(req.call, x), r)
           handled == req.handled \cup ReadsOf(req.call, tmp)
       IN srv' = [srv EXCEPT
                    !.tmp = tmp,
                    !.reqs = SetReq(r,
                       IF x.ok
                       THEN [req EXCEPT !.st = "sending", !.handled = handled]
                       ELSE [req EXCEPT !.st = "done", !.handled = handled, !.err = x,
                                        !.resp = ErrorResponse(x)])]
  /\ UNCHANGED <<run, probe, procs>>

NotFound == [ok |-> FALSE, msg |-> <<"Not Found">>, status |-> 404]

Aborted == [ok |-> FALSE, msg |-> <<"Request aborted">>]

\* res.sendFile(filePath, callback) up to the callback: the file is streamed
\* whole, or the client goes away after the headers
SendFile(r) ==
  /\ pc = "server"
  /\ r \in 1..Len(srv.reqs)
  /\ srv.reqs[r].st = "sending"
  /\ LET req == srv.reqs[r]
     IN IF req.out \in DOMAIN srv.tmp
        THEN \/ srv' = [srv EXCEPT !.reqs = SetReq(r,
                          [req EXCEPT !.st = "sent",
                                      !.handled = @ \cup {srv.tmp[req.out].by},
                                      !.resp = FileResponse(req.s, req.body, srv.tmp[req.out], TRUE)])]
             \/ srv' = [srv EXCEPT !.reqs = SetReq(r,
                          [req EXCEPT !.st = "sent", !.err = Aborted,
                                      !.handled = @ \cup {srv.tmp[req.out].by},
                                      !.resp = FileResponse(req.s, req.body, srv.tmp[req.out], FALSE)])]
        ELSE srv' = [srv EXCEPT !.reqs = SetReq(r, [req EXCEPT !.st = "sent", !.err = NotFound])]
  /\ UNCHANGED <<run, probe, procs>>

\* sendFile's callback: unlink the file, ignoring a failure, and hand an
\* error to next(); the error handler writes nothing once headers are sent
Cleanup(r) ==
  /\ pc = "server"
  /\ r \in 1..Len(srv.reqs)
  /\ srv.reqs[r].st = "sent"
  /\ LET req == srv.reqs[r]
         there == req.out \in DOMAIN srv.tmp
     IN srv' = [srv EXCEPT
                  !.tmp = [p \in DOMAIN srv.tmp \ {req.out} |-> srv.tmp[p]],
                  !.reqs = SetReq(r,
                     [req EXCEPT !.st = "done",
                                 !.handled = @ \cup (IF there THEN {srv.tmp[req.out].by} ELSE {}),
                                 !.resp = IF ~req.err.ok /\ req.resp = NoResponse
                                          THEN ErrorResponse(req.err) ELSE @])]
  /\ UNCHANGED <<run, probe, procs>>

NextServer ==
  \/ Receive
  \/ \E r \in 1..MaxRequests : GeneratorSettles(r) \/ SendFile(r) \/ Cleanup(r)

Received == 1..Len(srv.reqs)

\* the bytes the generator call of a request leaves at its output path
OwnBytes(r) ==
  LET call == srv.reqs[r].call
      w == Writes(call, CHOOSE x \in Settlements(call) : x.ok)
  IN [by |-> r, from |-> r, data |-> w[Len(w)][2]]

Delivered(r) ==
  srv.reqs[r].resp.status = 200 /\ srv.reqs[r].resp.complete

\* C23: under any interleaving of requests, a request reads, sends and
\* deletes only temporary files it created itself, and every successful
\* response carries the bytes its own generator call produced.
C23_RequestsIsolated ==
  pc = "server" =>
    \A r \in Received :
      /\ srv.reqs[r].handled \subseteq {r}
      /\ Delivered(r) => srv.reqs[r].resp.bytes = OwnBytes(r)

\* two requests of one route overlap: the later one has been answered with
\* its file while the earlier one has generated and not yet sent
C23_Witness ==
  /\ pc = "server"
  /\ \E q \in Received : \E r \in Received :
       /\ q < r
       /\ srv.reqs[q].s = srv.reqs[r].s
       /\ srv.reqs[q].st = "sending"
       /\ srv.reqs[q].out \in DOMAIN srv.tmp
       /\ srv.reqs[r].st = "done"
       /\ Delivered(r)
       /\ srv.reqs[r].handled = {r}

\* the body fields of each route
RouteFields ==
  << {"pretty", "data"}, {"title", "fontSize", "lines", "texts"}, {"lines", "texts"},
     {"lines", "texts"}, {"slides"}, {"sheets"}, {"rows", "data"}, {}, {},
     {"create", "output"}, {"lengthSeconds", "opts"}, {"lengthSeconds", "opts"},
     {"duration", "resolution", "fps", "background", "crf", "pixelFormat", "preset",
      "silentAudio"},
     {"files"}, {"files", "rarPath"} >>

\* the body fails a check of its route, or a check the generator makes on
\* the fields handed to it
ViolatesFieldCheck(r) ==
  LET req == srv.reqs[r]
  IN IF ~FirstFail(SrvChecks(req.s, req.body, srv.disk)).ok THEN TRUE
     ELSE ~OwnChecks(req.call).ok

GeneratorFailed(r) ==
  /\ srv.reqs[r].call # NoCall
  /\ srv.reqs[r].err \in Settlements(srv.reqs[r].call)
  /\ ~srv.reqs[r].err.ok

\* the message starts with a field of the route, or names the missing file
NamesField(s, msg) ==
  Head(msg) \in RouteFields[s] \/ Head(msg) = "file not found: "

\* C21: an answered request whose body violates a field check has got
\* status 400 with a JSON body {error, status} naming the field and no
\* generator was invoked for it; an answered request whose generator failed
\* has got status 500 with a JSON body {error, status}.
C21_ErrorResponses ==
  pc = "server" =>
    \A r \in Received :
      LET req == srv.reqs[r]
      IN req.st = "done" =>
           /\ ViolatesFieldCheck(r) =>
                /\ req.resp.status = 400
                /\ DOMAIN req.resp = {"status", "json"}
                /\ req.resp.json.status = 400
                /\ NamesField(req.s, req.resp.json.error)
                /\ req.call = NoCall
           /\ GeneratorFailed(r) =>
                /\ req.resp.status = 500
                /\ DOMAIN req.resp = {"status", "json"}
                /\ req.resp.json = [error |-> req.err.msg, status |-> 500]

\* the batch item made of the body's fields and a valid path
WithPath(body) == Obj(<< <<"path", Str(<<"out", "/", "f">>)>> >> \o body.e)

\* C22: a request body passes the validation of its route exactly when the
\* same fields with a valid path pass the batch handler's validation.
C22_SameSchema ==
  pc = "server" =>
    \A r \in Received :
      (srv.reqs[r].call # NoCall) <=> ValidateItem(srv.reqs[r].s, WithPath(srv.reqs[r].body), 0).ok

\* C30: once a request is answered, no file created in the temp dir on its
\* behalf remains.
C30_TempFilesRemoved ==
  pc = "server" =>
    \A r \in Received :
      srv.reqs[r].st = "done" => \A p \in DOMAIN srv.tmp : srv.tmp[p].by # r

Spec == Init /\ [][Next]_vars

\* the steps between two awaits run to completion and every generator call
\* settles.  A handler's loop is enabled exactly when pc = "handlers" (there is
\* a next item, or every handler has returned), so its weak fairness is
\* written with that condition spelled out.
SpecFair ==
  /\ Init /\ [][Next]_vars
  /\ WF_vars(Main \/ LoadYaml \/ EnsureOutputDir \/ Settle)
  /\ ([]<>(pc # "handlers") \/ []<><<BeginItem \/ Finish>>_vars)

SpecMkdir == InitMkdir /\ [][NextMkdir]_vars

SpecValidators == InitValidators /\ [][NextValidators]_vars

SpecServer == InitServer /\ [][NextServer]_vars

====
